---- MODULE Spec2Model ----
(***************************************************************************)
(* Model of the table parser of src/app/api/parse/route.ts.                *)
(*                                                                         *)
(* Strings are sequences of characters and a character is a TLA+ string:   *)
(* an ASCII character stands for itself ("7", ",", "%", "P"), a            *)
(* capitalised name stands for one non-ASCII or control character:         *)
(*   "Cho" 兆  "Oku" 億  "En" 円  "Bai" 倍  "FwPct" ％                       *)
(*   "Minus" − (U+2212)  "EnDash" –  "EmDash" —                            *)
(*   "Tab" "LF" "CR" control characters, "IdSp" U+3000                     *)
(*   "Ki" 企 "Gyo" 業 "Ka" 価 "Chi" 値 "Ji" 時 "Sou" 総 "Gaku" 額             *)
(*   "Uri" 売 "Age" 上 "Toku" 特 "Chou" 徴 "Go" 語 "Mei" 銘 "Gara" 柄          *)
(*   "Na" 名 "Misao" 操 "Saku" 作 "Kai" 会 "Kou" 好 "Shira" 調                *)
(*   "Zi" 自 "Dou" 動 "Sha" 車 "Hyaku" 百 "Man" 万 "Sen" 千                   *)
(*   "To" ト "Yo" ヨ "Ta" タ "Ko" コ "Choon" ー "Do" ド                        *)
(***************************************************************************)
EXTENDS Integers, Sequences, FiniteSets, TLC

VARIABLES
    pc,             \* position of the running call: POST is at "start", "awaitOracle"
                    \* or "done"; a function under call is at "call" or "returned"
    body,           \* POST: the request body as req.json() sees it
    client,         \* POST: whether OPENAI_API_KEY is configured
    reply,          \* POST: what the oracle call produced
    response,       \* POST: the response returned to the caller
    oracleCalls,    \* POST: number of chat.completions.create calls made
    heuristicCalls, \* POST: number of heuristicParse calls made
    arg,            \* argument of the function under call
    ret,            \* value the function returned
    db,             \* Convex: the tables, each the list of its documents in
                    \* creation order, and the next document id
    now             \* Convex: the value Date.now() returns

vars == <<pc, body, client, reply, response, oracleCalls, heuristicCalls, arg, ret, db, now>>

----------------------------------------------------------------------------
(* Character classes used by the regular expressions of route.ts.          *)

Digits == {"0", "1", "2", "3", "4", "5", "6", "7", "8", "9"}

\* \s and String.prototype.trim
Whitespace == {" ", "Tab", "LF", "CR", "IdSp"}

\* [A-Za-z]
Latin ==
    {"A", "B", "C", "D", "E", "F", "G", "H", "I", "J", "K", "L", "M", "N", "O",
     "P", "Q", "R", "S", "T", "U", "V", "W", "X", "Y", "Z",
     "a", "b", "c", "d", "e", "f", "g", "h", "i", "j", "k", "l", "m", "n", "o",
     "p", "q", "r", "s", "t", "u", "v", "w", "x", "y", "z"}

\* [\u3040-\u30ff], the kana used here
Kana == {"To", "Yo", "Ta", "Ko", "Choon", "Do"}

\* [\u4e00-\u9faf], the kanji used here
Kanji ==
    {"Cho", "Oku", "En", "Bai", "Ki", "Gyo", "Ka", "Chi", "Ji", "Sou", "Gaku",
     "Uri", "Age", "Toku", "Chou", "Go", "Mei", "Gara", "Na", "Misao", "Saku",
     "Kai", "Kou", "Shira", "Zi", "Dou", "Sha", "Hyaku", "Man", "Sen"}

\* [-−–—]
Dashes == {"-", "Minus", "EnDash", "EmDash"}

----------------------------------------------------------------------------
(* String helpers: the JavaScript string methods the parser calls.         *)

\* s[p], or "" (no character) outside the string
At(s, p) == IF p \in 1..Len(s) THEN s[p] ELSE ""

\* s.slice(from - 1, to) in 1-based inclusive positions, clamped like slice
Slice(s, from, to) ==
    IF from > to \/ from > Len(s) THEN <<>>
    ELSE SubSeq(s, from, IF to > Len(s) THEN Len(s) ELSE to)

\* least element of a non-empty set of integers
Min(I) == CHOOSE q \in I : \A r \in I : q <= r

\* greatest element of a non-empty set of integers
Max(I) == CHOOSE q \in I : \A r \in I : q >= r

\* first position >= p whose character is not in set S (Len(s)+1 if none):
\* the end of a greedy run [S]* that starts at p
SkipIn(s, p, S) == Min({ q \in p..Len(s) : s[q] \notin S } \cup {Len(s) + 1})

\* last position <= p whose character is not in set S (0 if none)
SkipBackIn(s, p, S) == Max({ q \in 1..p : s[q] \notin S } \cup {0})

\* no trimming at all
Trim_Identity(s) == s

\* String.prototype.trim
Trim(s) == Slice(s, SkipIn(s, 1, Whitespace), SkipBackIn(s, Len(s), Whitespace))

\* s.startsWith(w, p - 1)
StartsAt(s, w, p) ==
    /\ p >= 1
    /\ p + Len(w) - 1 <= Len(s)
    /\ \A k \in 1..Len(w) : s[p + k - 1] = w[k]

\* s.includes(w)
Includes(s, w) == \E p \in 1..(Len(s) + 1) : StartsAt(s, w, p)

\* Array.prototype.join
RECURSIVE Join(_, _)
Join(parts, sep) ==
    IF Len(parts) = 0 THEN <<>>
    ELSE IF Len(parts) = 1 THEN parts[1]
    ELSE parts[1] \o sep \o Join(Tail(parts), sep)

\* s.split(/[S]+/) : the pieces between maximal runs of characters of S,
\* with an empty piece before a leading run and after a trailing run
RECURSIVE SplitFrom(_, _, _, _)
SplitFrom(s, p, S, acc) ==
    LET seps == { q \in p..Len(s) : s[q] \in S }
    IN IF seps = {} THEN Append(acc, Slice(s, p, Len(s)))
       ELSE SplitFrom(s, SkipIn(s, Min(seps), S), S,
                      Append(acc, Slice(s, p, Min(seps) - 1)))

Split(s, S) == SplitFrom(s, 1, S, <<>>)

\* Array.prototype.filter(Boolean) on an array of strings: drops the empty ones
FilterNonEmpty(parts) == SelectSeq(parts, LAMBDA t : Len(t) > 0)

\* parts.map((t) => t.trim())
MapTrim(parts) == [k \in 1..Len(parts) |-> Trim(parts[k])]

\* A regular expression anchored at position p of s is modelled by its match:
\* a record [end, out] with end the position after the match (0 when it does
\* not match at p) and out the replacement text.
NoMatch == [end |-> 0, out |-> <<>>]

\* (?:\.\d+)? anchored at q: the position after the match
FractionEnd(s, q) ==
    IF At(s, q) = "." /\ SkipIn(s, q + 1, Digits) > q + 1
    THEN SkipIn(s, q + 1, Digits)
    ELSE q

\* \d[\d,]*(?:\.\d+)? anchored at p: the position after the match, 0 if none.
\* Each piece is followed in every use by a character outside its own class
\* (whitespace, a unit, or the end), so the greedy match is the only one that
\* can succeed and no backtracking is modelled.
NumEnd(s, p) ==
    IF At(s, p) \notin Digits THEN 0
    ELSE FractionEnd(s, SkipIn(s, p + 1, Digits \cup {","}))

\* /％/g -> "%"
MatchFwPct(s, p) ==
    IF s[p] = "FwPct" THEN [end |-> p + 1, out |-> <<"%">>] ELSE NoMatch

\* \s*A after the slash at q, for an N at p
SlashA(s, q, r) ==
    IF At(s, q) = "/" /\ At(s, r) \in {"A", "a"}
    THEN [end |-> r + 1, out |-> <<"N", "/", "A">>]
    ELSE NoMatch

\* \s*\/ after the N at p
AfterN(s, q) == SlashA(s, q, SkipIn(s, q + 1, Whitespace))

\* /N\s*\/\s*A/gi -> "N/A"
MatchNA(s, p) ==
    IF s[p] \in {"N", "n"} THEN AfterN(s, SkipIn(s, p + 1, Whitespace)) ELSE NoMatch

\* \s*円 after the 兆 or 億 at q, for a number s[p..e-1]
ChoOkuThenEn(s, p, e, q, r) ==
    IF At(s, q) \in {"Cho", "Oku"} /\ At(s, r) = "En"
    THEN [end |-> r + 1, out |-> Slice(s, p, e - 1) \o <<s[q], "En">>]
    ELSE NoMatch

\* \s*(兆|億) after the number s[p..e-1], q the position after the whitespace
NumberThenChoOku(s, p, e, q) == ChoOkuThenEn(s, p, e, q, SkipIn(s, q + 1, Whitespace))

\* the rest of the expression after the number s[p..e-1]
AfterNumber(s, p, e) ==
    IF e > 0 THEN NumberThenChoOku(s, p, e, SkipIn(s, e, Whitespace)) ELSE NoMatch

\* /(\d[\d,]*(?:\.\d+)?)\s*(兆|億)\s*円/g -> "$1$2円"
MatchChoOkuEn(s, p) == AfterNumber(s, p, NumEnd(s, p))

\* the unit character U at q, after the number s[p..e-1] and whitespace
NumberThenUnit(s, p, e, q, U) ==
    IF At(s, q) = U
    THEN [end |-> q + 1, out |-> Slice(s, p, e - 1) \o <<U>>]
    ELSE NoMatch

\* \s*U after the number s[p..e-1]
UnitAfterNumber(s, p, e, U) ==
    IF e > 0 THEN NumberThenUnit(s, p, e, SkipIn(s, e, Whitespace), U) ELSE NoMatch

\* /(\d[\d,]*(?:\.\d+)?)\s*U/g -> "$1U" for one unit character U
MatchUnit(s, p, U) == UnitAfterNumber(s, p, NumEnd(s, p), U)

MatchEn(s, p) == MatchUnit(s, p, "En")
MatchBai(s, p) == MatchUnit(s, p, "Bai")
MatchPct(s, p) == MatchUnit(s, p, "%")

\* /\s+/g -> " "
MatchWsRun(s, p) ==
    IF s[p] \in Whitespace
    THEN [end |-> SkipIn(s, p, Whitespace), out |-> <<" ">>]
    ELSE NoMatch

\* /\r\n?/g -> "\n"
MatchCR(s, p) ==
    IF s[p] = "CR"
    THEN [end |-> IF At(s, p + 1) = "LF" THEN p + 2 ELSE p + 1, out |-> <<"LF">>]
    ELSE NoMatch

\* /W円?/g -> out, for the characters W of a unit word: the match of the word
\* at p, with the 円 after it when there is one
MatchUnitWord(s, p, W, out) ==
    IF StartsAt(s, W, p)
    THEN [end |-> IF At(s, p + Len(W)) = "En" THEN p + Len(W) + 1 ELSE p + Len(W),
          out |-> out]
    ELSE NoMatch

\* /c/g -> "" for one character c
MatchDeleted(s, p, c) ==
    IF s[p] = c THEN [end |-> p + 1, out |-> <<>>] ELSE NoMatch

\* the global regular expressions of the program, by name: those of
\* mergeNumberUnits, tokenizeRow and heuristicParse, then those of
\* parseJapaneseNumber
MatchAt(re, s, p) ==
    CASE re = "fwPct"    -> MatchFwPct(s, p)
      [] re = "na"       -> MatchNA(s, p)
      [] re = "choOkuEn" -> MatchChoOkuEn(s, p)
      [] re = "en"       -> MatchEn(s, p)
      [] re = "bai"      -> MatchBai(s, p)
      [] re = "pct"      -> MatchPct(s, p)
      [] re = "wsRun"    -> MatchWsRun(s, p)
      [] re = "cr"       -> MatchCR(s, p)
      [] re = "cho?"     -> MatchUnitWord(s, p, <<"Cho">>, <<"e", "1", "2">>)
      [] re = "oku?"     -> MatchUnitWord(s, p, <<"Oku">>, <<"e", "8">>)
      [] re = "hyakuman?" -> MatchUnitWord(s, p, <<"Hyaku", "Man">>, <<"e", "6">>)
      [] re = "sen?"     -> MatchUnitWord(s, p, <<"Sen">>, <<"e", "3">>)
      [] re = "yen"      -> MatchDeleted(s, p, "En")
      [] re = "times"    -> MatchDeleted(s, p, "Bai")
      [] re = "percent"  -> MatchDeleted(s, p, "%")
      [] re = "comma"    -> MatchDeleted(s, p, ",")

\* s.replace(re, ...) for a global regular expression: scanning takes the
\* leftmost match at or after p, copies the characters before it, and resumes
\* after it.
RECURSIVE ReplaceFrom(_, _, _, _)

\* the match m found at position h is replaced and the scan resumes after it
ReplaceMatch(re, s, p, acc, h, m) ==
    ReplaceFrom(re, s, m.end, acc \o Slice(s, p, h - 1) \o m.out)

\* hits: the positions at or after p where re matches
ReplaceLeftmost(re, s, p, acc, hits) ==
    IF hits = {} THEN acc \o Slice(s, p, Len(s))
    ELSE ReplaceMatch(re, s, p, acc, Min(hits), MatchAt(re, s, Min(hits)))

ReplaceFrom(re, s, p, acc) ==
    ReplaceLeftmost(re, s, p, acc, { q \in p..Len(s) : MatchAt(re, s, q).end > 0 })

ReplaceAll(re, s) == ReplaceFrom(re, s, 1, <<>>)

----------------------------------------------------------------------------
(* mergeNumberUnits                                                        *)

\* the full-width percent sign is normalized after the units are merged
mergeNumberUnits_PercentLast(input) ==
    ReplaceAll("fwPct",
        ReplaceAll("pct",
            ReplaceAll("bai",
                ReplaceAll("en",
                    ReplaceAll("choOkuEn",
                        ReplaceAll("na", input))))))

\* the six replacements, the first applied innermost
mergeNumberUnits(input) ==
    ReplaceAll("pct",
        ReplaceAll("bai",
            ReplaceAll("en",
                ReplaceAll("choOkuEn",
                    ReplaceAll("na",
                        ReplaceAll("fwPct", input))))))

----------------------------------------------------------------------------
(* tokenizeHeader, tokenizeRow                                             *)

\* /[\s|\t]+/
Separators == Whitespace \cup {"|"}

\* raw.split(/[\s|\t]+/).map((t) => t.trim()).filter(Boolean)
BaseTokens(s) == FilterNonEmpty(MapTrim(Split(s, Separators)))

\* /^\(.+\)$/.test(t)
IsParenToken(t) == Len(t) >= 3 /\ t[1] = "(" /\ t[Len(t)] = ")"

dropLabels ==
    { <<"Mei", "Gara">>,            \* 銘柄
      <<"Ki", "Gyo", "Na">>,        \* 企業名
      <<"Mei", "Gara", "Na">>,      \* 銘柄名
      <<"Ko", "Choon", "Do">>,      \* コード
      <<"c", "o", "d", "e">>,
      <<"n", "a", "m", "e">>,
      <<"Misao", "Saku">> }         \* 操作

\* the loop without the join: every token is pushed
RECURSIVE JoinParens_NoJoin(_, _)
JoinParens_NoJoin(tokens, joined) ==
    IF Len(tokens) = 0 THEN joined
    ELSE JoinParens_NoJoin(Tail(tokens), Append(joined, Head(tokens)))

\* the loop over tokens that joins a parenthesised token to the previous one
RECURSIVE JoinParens(_, _)
JoinParens(tokens, joined) ==
    IF Len(tokens) = 0 THEN joined
    ELSE LET t == Head(tokens)
         IN IF IsParenToken(t) /\ Len(joined) > 0
            THEN JoinParens(Tail(tokens),
                    [joined EXCEPT ![Len(joined)] = joined[Len(joined)] \o <<" ">> \o t])
            ELSE JoinParens(Tail(tokens), Append(joined, t))

\* joined.filter((t) => !drop.has(t))
DropLabels(joined) == SelectSeq(joined, LAMBDA t : t \notin dropLabels)

tokenizeHeader(line) == DropLabels(JoinParens(BaseTokens(Trim(line)), <<>>))

\* tokenizeRow without the unit normalizer
tokenizeRow_NoMerge(line) ==
    BaseTokens(Trim(ReplaceAll("wsRun", line)))

tokenizeRow(line) ==
    BaseTokens(Trim(ReplaceAll("wsRun", mergeNumberUnits(line))))

----------------------------------------------------------------------------
(* isNumericLikeToken                                                      *)

\* 兆円|億円|円|倍|%|％
unitSuffixes ==
    { <<"Cho", "En">>, <<"Oku", "En">>, <<"En">>, <<"Bai">>, <<"%">>, <<"FwPct">> }

\* /^(?:N\/?A|n\/?a)$/i
IsNASpelling(t) ==
    \/ Len(t) = 2 /\ t[1] \in {"N", "n"} /\ t[2] \in {"A", "a"}
    \/ Len(t) = 3 /\ t[1] \in {"N", "n"} /\ t[2] = "/" /\ t[3] \in {"A", "a"}

\* /^[-−–—]$/
IsLoneDash(t) == Len(t) = 1 /\ t[1] \in Dashes

\* the same expression without its closing $: a numeric prefix is enough
IsNumberWithUnit_Unanchored(t) ==
    LET p == IF At(t, 1) \in Dashes THEN 2 ELSE 1
    IN NumEnd(t, p) > 0

\* /^[-−–—]?\d[\d,]*(?:\.\d+)?(?:兆円|億円|円|倍|%|％)?$/
IsNumberWithUnit(t) ==
    LET p == IF At(t, 1) \in Dashes THEN 2 ELSE 1
        e == NumEnd(t, p)
    IN /\ e > 0
       /\ Slice(t, e, Len(t)) \in unitSuffixes \cup {<<>>}

isNumericLikeToken(token) ==
    LET t == Trim(token)
    IN IF Len(t) = 0 THEN FALSE
       ELSE IF IsNASpelling(t) THEN TRUE
       ELSE IF IsLoneDash(t) THEN TRUE
       ELSE IsNumberWithUnit(t)

----------------------------------------------------------------------------
(* heuristicParse                                                          *)

\* JavaScript's undefined, where a string was expected
Undefined == <<"undefined">>

\* seq.slice(a, b) with JavaScript's 0-based, end-exclusive positions
JsSlice(seq, a, b) == Slice(seq, a + 1, b)

\* s.split("\n") : the pieces between single LF characters
RECURSIVE SplitLinesFrom(_, _, _)
SplitLinesFrom(s, p, acc) ==
    LET seps == { q \in p..Len(s) : s[q] = "LF" }
    IN IF seps = {} THEN Append(acc, Slice(s, p, Len(s)))
       ELSE SplitLinesFrom(s, Min(seps) + 1, Append(acc, Slice(s, p, Min(seps) - 1)))

\* text.replace(/\r\n?/g, "\n").split("\n").map(trim).filter((l) => l.length > 0)
Lines(text) ==
    FilterNonEmpty(MapTrim(SplitLinesFrom(ReplaceAll("cr", text), 1, <<>>)))

headerKeywords ==
    { <<"P", "E", "R">>, <<"P", "B", "R">>, <<"R", "O", "E">>,
      <<"Ji", "Ka", "Sou", "Gaku">>,      \* 時価総額
      <<"Ki", "Gyo", "Ka", "Chi">> }      \* 企業価値

\* /[A-Za-z\u3040-\u30ff\u4e00-\u9faf].*(PER|PBR|ROE|時価総額|企業価値)/.test(l)
IsHeaderLine(l) ==
    \E i \in 1..Len(l) :
        /\ l[i] \in Latin \cup Kana \cup Kanji
        /\ \E k \in (i + 1)..Len(l) : \E w \in headerKeywords : StartsAt(l, w, k)

\* lines.findIndex(IsHeaderLine), 0-based, -1 when there is none
RECURSIVE FindHeaderFrom(_, _)
FindHeaderFrom(lines, i) ==
    IF i >= Len(lines) THEN -1
    ELSE IF IsHeaderLine(lines[i + 1]) THEN i
    ELSE FindHeaderFrom(lines, i + 1)

headerIdxOf(lines) == FindHeaderFrom(lines, 0)

\* /^\d{4,5}$/.test(t)
IsCodeToken(t) == Len(t) \in {4, 5} /\ \A k \in 1..Len(t) : t[k] \in Digits

tokuchoLabel == <<"Toku", "Chou", "Go">>      \* 特徴語

\* row[key] = val
SetCell(cells, key, val) ==
    [h \in (DOMAIN cells) \cup {key} |-> IF h = key THEN val ELSE cells[h]]

NoCells == [h \in {} |-> <<>>]

\* the loop  for (let i = 1; i <= rest.length; i++)  that sets j
RECURSIVE FindOffsetFrom(_, _, _)
FindOffsetFrom(rest, numericCount, i) ==
    IF i > Len(rest) THEN -1
    ELSE IF /\ i + numericCount <= Len(rest)
            /\ \A k \in 1..numericCount : isNumericLikeToken(rest[i + k])
         THEN i
         ELSE FindOffsetFrom(rest, numericCount, i + 1)

\* the scan started at rest[0]
FindOffset_FromZero(rest, numericCount) == FindOffsetFrom(rest, numericCount, 0)

FindOffset(rest, numericCount) == FindOffsetFrom(rest, numericCount, 1)

\* for (k = from; k < n; k++) row[headers[k]] = values[k] ?? ""
RECURSIVE AssignFrom(_, _, _, _, _)
AssignFrom(cells, headers, values, k, n) ==
    IF k >= n THEN cells
    ELSE AssignFrom(SetCell(cells, headers[k + 1],
                            IF k + 1 <= Len(values) THEN values[k + 1] ELSE <<>>),
                    headers, values, k + 1, n)

DigitChar(d) == <<"0", "1", "2", "3", "4", "5", "6", "7", "8", "9">>[d + 1]

\* String(n) for a natural number
RECURSIVE DecimalString(_)
DecimalString(n) ==
    IF n < 10 THEN <<DigitChar(n)>>
    ELSE DecimalString(n \div 10) \o <<DigitChar(n % 10)>>

\* valueTokens.forEach((val, i) => { row[`col_${i + 1}`] = val })
RECURSIVE NumberColumns(_, _, _)
NumberColumns(cells, valueTokens, i) ==
    IF i >= Len(valueTokens) THEN cells
    ELSE NumberColumns(
            SetCell(cells, <<"c", "o", "l", "_">> \o DecimalString(i + 1), valueTokens[i + 1]),
            valueTokens, i + 1)

\* tokens.slice(1) whether or not a code was found
ValueTokens_IgnoreCode(hasCode, tokens) == JsSlice(tokens, 1, Len(tokens))

\* code ? tokens.slice(2) : tokens.slice(1)
ValueTokens(hasCode, tokens) ==
    IF hasCode THEN JsSlice(tokens, 2, Len(tokens)) ELSE JsSlice(tokens, 1, Len(tokens))

\* the numeric values taken one token too early
AlignedCells_ShiftedLeft(headers, rest, j) ==
    LET hasTokucho == headers[Len(headers)] = tokuchoLabel
        numericCount == IF hasTokucho THEN Len(headers) - 1 ELSE Len(headers)
        numericValues == JsSlice(rest, j - 1, j - 1 + numericCount)
        numeric == AssignFrom(NoCells, headers, numericValues, 0, numericCount)
    IN IF hasTokucho
       THEN SetCell(numeric, headers[Len(headers)],
                    Join(JsSlice(rest, j + numericCount, Len(rest)), <<" ">>))
       ELSE numeric

\* the cells written when the numeric run starts at rest[j]
AlignedCells(headers, rest, j) ==
    LET hasTokucho == headers[Len(headers)] = tokuchoLabel
        numericCount == IF hasTokucho THEN Len(headers) - 1 ELSE Len(headers)
        numericValues == JsSlice(rest, j, j + numericCount)
        numeric == AssignFrom(NoCells, headers, numericValues, 0, numericCount)
    IN IF hasTokucho
       THEN SetCell(numeric, headers[Len(headers)],
                    Join(JsSlice(rest, j + numericCount, Len(rest)), <<" ">>))
       ELSE numeric

\* the body of the loop over dataLines, for a line with at least one token
ParseRow(headers, tokens) ==
    LET hasCode == IsCodeToken(tokens[1])
        code == IF hasCode THEN tokens[1] ELSE Undefined
        name0 == IF hasCode /\ Len(tokens) >= 2 THEN tokens[2] ELSE Undefined
        name == IF name0 = Undefined THEN tokens[1] ELSE name0
        rest == IF hasCode THEN JsSlice(tokens, 1, Len(tokens)) ELSE tokens
        valueTokens == ValueTokens(hasCode, tokens)
    IN IF Len(headers) > 0
       THEN LET hasTokucho == headers[Len(headers)] = tokuchoLabel
                numericCount == IF hasTokucho THEN Len(headers) - 1 ELSE Len(headers)
                j == FindOffset(rest, numericCount)
                m == IF Len(headers) < Len(valueTokens) THEN Len(headers)
                                                        ELSE Len(valueTokens)
            IN IF j # -1
               THEN [code |-> code,
                     name |-> Join(JsSlice(rest, 0, j), <<" ">>),
                     cells |-> AlignedCells(headers, rest, j)]
               ELSE [code |-> code,
                     name |-> name,
                     cells |-> AssignFrom(NoCells, headers, valueTokens, 0, m)]
       ELSE [code |-> code,
             name |-> name,
             cells |-> NumberColumns(NoCells, valueTokens, 0)]

\* the token lists of the data lines, without the lines that yield no token
\* (if (tokens.length < 1) continue)
RowTokens(dataLines) ==
    SelectSeq([k \in 1..Len(dataLines) |-> tokenizeRow(dataLines[k])],
              LAMBDA tokens : Len(tokens) >= 1)

\* rows.push(row) for each remaining token list, in order
PushRows(headers, tokenLists) ==
    [k \in 1..Len(tokenLists) |-> ParseRow(headers, tokenLists[k])]

\* for (const l of dataLines) { ...; rows.push(row) }
ParseLines(headers, dataLines) == PushRows(headers, RowTokens(dataLines))

\* headerIdx >= 0 ? tokenizeHeader(lines[headerIdx]) : []
headersOf(lines, headerIdx) ==
    IF headerIdx >= 0 THEN tokenizeHeader(lines[headerIdx + 1]) ELSE <<>>

\* the header line is kept among the data lines
dataLinesOf_WithHeader(lines, headerIdx) ==
    JsSlice(lines, IF headerIdx >= 0 THEN headerIdx ELSE 0, Len(lines))

\* lines.slice(headerIdx >= 0 ? headerIdx + 1 : 0)
dataLinesOf(lines, headerIdx) ==
    JsSlice(lines, IF headerIdx >= 0 THEN headerIdx + 1 ELSE 0, Len(lines))

\* return { headers, rows }
Table(headers, dataLines) ==
    [headers |-> headers, rows |-> ParseLines(headers, dataLines)]

\* the parse of the trimmed non-empty lines, headerIdx the header line's index
ParseAround(lines, headerIdx) ==
    Table(headersOf(lines, headerIdx), dataLinesOf(lines, headerIdx))

\* the parse of the trimmed non-empty lines
ParseTrimmedLines(lines) == ParseAround(lines, headerIdxOf(lines))

heuristicParse(text) == ParseTrimmedLines(Lines(text))

----------------------------------------------------------------------------
(* isValidParsed                                                           *)
(*                                                                         *)
(* A JSON value is a record [type, headers, rows]: type is the kind of the *)
(* value; headers and rows are its properties of those names, each a       *)
(* record [type, items] with type "undefined" when the property is absent  *)
(* (always, on a value that is not an object), "string" for a property     *)
(* that is not an array, "array" for an array whose elements are items.    *)

NoProp == [type |-> "undefined", items |-> <<>>]

\* !parsed
Falsy(v) == v.type \in {"null", "zero", "emptyString"}

\* typeof parsed
TypeOf(v) ==
    CASE v.type \in {"null", "object", "array"} -> "object"
      [] v.type \in {"zero", "number"} -> "number"
      [] OTHER -> "string"

\* Array.isArray(x)
IsArray(prop) == prop.type = "array"

mustHave ==
    { <<"P", "E", "R">>, <<"Ji", "Ka">>, <<"Ki", "Gyo", "Ka", "Chi">>,
      <<"R", "O", "E">>, <<"Uri", "Age">> }

\* headers.length < MinHeaders is rejected
MinHeaders == 5

\* the validator without its check that rows is non-empty
isValidParsed_EmptyRowsOk(parsed) ==
    IF \/ Falsy(parsed)
       \/ TypeOf(parsed) # "object"
       \/ ~IsArray(parsed.headers)
       \/ ~IsArray(parsed.rows)
    THEN FALSE
    ELSE LET headers == parsed.headers.items
             headerStrs == Join(headers, <<"LF">>)
             hasKey == \E k \in mustHave : Includes(headerStrs, k)
         IN IF Len(headers) < MinHeaders THEN FALSE
            ELSE IF ~hasKey THEN FALSE
            ELSE TRUE

isValidParsed(parsed) ==
    IF \/ Falsy(parsed)
       \/ TypeOf(parsed) # "object"
       \/ ~IsArray(parsed.headers)
       \/ ~IsArray(parsed.rows)
    THEN FALSE
    ELSE LET headers == parsed.headers.items
             rows == parsed.rows.items
             headerStrs == Join(headers, <<"LF">>)
             hasKey == \E k \in mustHave : Includes(headerStrs, k)
         IN IF Len(headers) < MinHeaders THEN FALSE
            ELSE IF ~hasKey THEN FALSE
            ELSE IF Len(rows) = 0 THEN FALSE
            ELSE TRUE

----------------------------------------------------------------------------
(* POST                                                                    *)
(*                                                                         *)
(* body: [json, text] - json is FALSE when req.json() rejects or yields a  *)
(* value that cannot be destructured; text is the JSON value of its        *)
(* "text" property, a record [type, str].                                  *)
(* reply: [kind, content, obj] - kind "throws" when the awaited call       *)
(* rejects, "content" when it resolves; content is the reply text as a     *)
(* sequence over "{", "}", "c" (any other character of commentary) and "M" *)
(* (the text of the members of the object obj).                            *)

NoReply == [kind |-> "none", content |-> <<>>, obj |-> [type |-> "object", headers |-> NoProp, rows |-> NoProp]]

NoResponse == [status |-> 0, error |-> "", headers |-> <<>>, rows |-> <<>>]

ErrorResponse(status, msg) == [status |-> status, error |-> msg, headers |-> <<>>, rows |-> <<>>]

\* NextResponse.json({ headers, rows }) / NextResponse.json(parsed)
TableResponse(headers, rows) == [status |-> 200, error |-> "", headers |-> headers, rows |-> rows]

\* !text
FalsyText(t) ==
    \/ t.type \in {"undefined", "null", "zero"}
    \/ t.type = "string" /\ Len(t.str) = 0

\* content.indexOf("{"), 0-based, -1 when absent
RECURSIVE IndexOfFrom(_, _, _)
IndexOfFrom(s, c, i) ==
    IF i >= Len(s) THEN -1
    ELSE IF s[i + 1] = c THEN i
    ELSE IndexOfFrom(s, c, i + 1)

IndexOf(s, c) == IndexOfFrom(s, c, 0)

\* content.lastIndexOf("}"), 0-based, -1 when absent
RECURSIVE LastIndexOfFrom(_, _, _)
LastIndexOfFrom(s, c, i) ==
    IF i < 0 THEN -1
    ELSE IF s[i + 1] = c THEN i
    ELSE LastIndexOfFrom(s, c, i - 1)

LastIndexOf(s, c) == LastIndexOfFrom(s, c, Len(s) - 1)

\* JSON.parse(span) does not throw: the span is one object literal
JsonParses(span) == span \in { <<"{", "}">>, <<"{", "M", "}">> }

\* JSON.parse(span), for a span that parses
JsonParse(span, obj) ==
    IF span = <<"{", "M", "}">> THEN obj
    ELSE [type |-> "object", headers |-> NoProp, rows |-> NoProp]

\* return NextResponse.json({ headers, rows }) for the heuristic's table
RespondHeuristic(table) ==
    /\ response' = TableResponse(table.headers, table.rows)
    /\ heuristicCalls' = heuristicCalls + 1
    /\ pc' = "done"

\* lines 49-51: the heuristic fallback
HeuristicFallback == RespondHeuristic(heuristicParse(body.text.str))

\* lines 11-27: the handler up to the awaited oracle call
Receive ==
    /\ pc = "start"
    /\ UNCHANGED <<body, client, reply, arg, ret, db, now>>
    /\ IF ~body.json
       THEN /\ response' = ErrorResponse(500, "Parse failed")
            /\ pc' = "done"
            /\ UNCHANGED <<oracleCalls, heuristicCalls>>
       ELSE IF FalsyText(body.text)
       THEN /\ response' = ErrorResponse(400, "No text")
            /\ pc' = "done"
            /\ UNCHANGED <<oracleCalls, heuristicCalls>>
       ELSE IF body.text.type # "string"
       THEN \* text.trim is not a function: caught by the outer try
            /\ response' = ErrorResponse(500, "Parse failed")
            /\ pc' = "done"
            /\ UNCHANGED <<oracleCalls, heuristicCalls>>
       ELSE IF Len(Trim(body.text.str)) = 0
       THEN /\ response' = ErrorResponse(400, "No text")
            /\ pc' = "done"
            /\ UNCHANGED <<oracleCalls, heuristicCalls>>
       ELSE IF client
       THEN /\ oracleCalls' = oracleCalls + 1
            /\ pc' = "awaitOracle"
            /\ UNCHANGED <<response, heuristicCalls>>
       ELSE /\ HeuristicFallback
            /\ UNCHANGED oracleCalls

\* content.slice(jsonStart, jsonEnd + 1)
BraceSlice(content) ==
    JsSlice(content, IndexOf(content, "{"), LastIndexOf(content, "}") + 1)

\* parsed = JSON.parse(content.slice(jsonStart, jsonEnd + 1))
ParsedReply(content, obj) == JsonParse(BraceSlice(content), obj)

\* lines 36-41: the reply holds a brace span that parses to a valid table
UsableReply(content, obj) ==
    /\ IndexOf(content, "{") >= 0
    /\ LastIndexOf(content, "}") > IndexOf(content, "{")
    /\ JsonParses(BraceSlice(content))
    /\ isValidParsed(ParsedReply(content, obj))

\* the rejection is not caught around the call and reaches the outer catch
OracleThrows_Surfaces ==
    /\ pc = "awaitOracle"
    /\ reply' = [NoReply EXCEPT !.kind = "throws"]
    /\ response' = ErrorResponse(500, "Parse failed")
    /\ pc' = "done"
    /\ UNCHANGED <<body, client, oracleCalls, heuristicCalls, arg, ret, db, now>>

\* lines 44-51: the awaited call rejects
OracleThrows ==
    /\ pc = "awaitOracle"
    /\ reply' = [NoReply EXCEPT !.kind = "throws"]
    /\ HeuristicFallback
    /\ UNCHANGED <<body, client, oracleCalls, arg, ret, db, now>>

\* the heuristic parser runs on every reply, accepted or not
OracleReplies_HeuristicToo(r) ==
    /\ pc = "awaitOracle"
    /\ reply' = r
    /\ UNCHANGED <<body, client, oracleCalls, arg, ret, db, now>>
    /\ IF UsableReply(r.content, r.obj)
       THEN /\ response' = TableResponse(ParsedReply(r.content, r.obj).headers.items,
                                         ParsedReply(r.content, r.obj).rows.items)
            /\ pc' = "done"
            /\ heuristicCalls' = heuristicCalls + 1
       ELSE HeuristicFallback

\* lines 35-51: the awaited call resolves with a reply r
OracleReplies(r) ==
    /\ pc = "awaitOracle"
    /\ reply' = r
    /\ UNCHANGED <<body, client, oracleCalls, arg, ret, db, now>>
    /\ IF UsableReply(r.content, r.obj)
       THEN /\ response' = TableResponse(ParsedReply(r.content, r.obj).headers.items,
                                         ParsedReply(r.content, r.obj).rows.items)
            /\ pc' = "done"
            /\ UNCHANGED heuristicCalls
       ELSE HeuristicFallback

----------------------------------------------------------------------------
(* src/lib/metrics.ts: parseJapaneseNumber                                 *)
(*                                                                         *)
(* A number is a record [kind, m, e]: kind "number" is the decimal         *)
(* m * 10^e, kept with m not a multiple of 10 (zero is m = 0, e = 0);      *)
(* kind "NaN" and kind "null" are NaN and null. Decimals are exact: the    *)
(* rounding of IEEE doubles and their overflow to Infinity is not          *)
(* modelled.                                                               *)

Null == [kind |-> "null", m |-> 0, e |-> 0]

NaN == [kind |-> "NaN", m |-> 0, e |-> 0]

\* the number m * 10^e
RECURSIVE Number(_, _)
Number(m, e) ==
    IF m = 0 THEN [kind |-> "number", m |-> 0, e |-> 0]
    ELSE IF m % 10 = 0 THEN Number(m \div 10, e + 1)
    ELSE [kind |-> "number", m |-> m, e |-> e]

isNaN(x) == x.kind = "NaN"

DigitOf(c) == CHOOSE d \in 0..9 : DigitChar(d) = c

\* the value of a string of decimal digits (0 for the empty string)
RECURSIVE DigitsValue(_)
DigitsValue(ds) ==
    IF Len(ds) = 0 THEN 0
    ELSE 10 * DigitsValue(SubSeq(ds, 1, Len(ds) - 1)) + DigitOf(ds[Len(ds)])

\* +1 or -1 for the optional sign at p
SignAt(s, p) == IF At(s, p) = "-" THEN -1 ELSE 1

\* the position after the optional sign at p
AfterSign(s, p) == IF At(s, p) \in {"+", "-"} THEN p + 1 ELSE p

\* the exponent part at r: e or E, an optional sign and digits up to y - 1,
\* x the position of the first digit; without a digit there is no exponent part
WithExponent(m, e, s, x, y) ==
    IF y > x
    THEN Number(m, e + SignAt(s, x - 1) * DigitsValue(Slice(s, x, y - 1)))
    ELSE Number(m, e)

\* the exponent part from its first digit on
ExponentDigits(m, e, s, x) == WithExponent(m, e, s, x, SkipIn(s, x, Digits))

\* the decimal m * 10^e read up to r - 1, and the exponent part at r if any
FloatExponent(m, e, s, r) ==
    IF At(s, r) \in {"e", "E"}
    THEN ExponentDigits(m, e, s, AfterSign(s, r + 1))
    ELSE Number(m, e)

\* the digits ds of the literal, read as ds * 10^e: the zeros that end ds are
\* counted in the exponent
FloatDigits(sign, ds, e, s, r) ==
    FloatExponent(sign * DigitsValue(Slice(ds, 1, SkipBackIn(ds, Len(ds), {"0"}))),
                  e + Len(ds) - SkipBackIn(ds, Len(ds), {"0"}),
                  s, r)

\* integer digits s[p..q-1]; r is q without a dot at q, else the position after the
\* dot and the digits that follow it
FloatFraction(s, p, sign, q, r) ==
    IF q = p /\ r <= q + 1 THEN NaN
    ELSE FloatDigits(sign, Slice(s, p, q - 1) \o Slice(s, q + 1, r - 1),
                     IF r > q THEN -(r - q - 1) ELSE 0,
                     s, r)

\* integer digits s[p..q-1]
FloatInteger(s, p, sign, q) ==
    FloatFraction(s, p, sign, q, IF At(s, q) = "." THEN SkipIn(s, q + 1, Digits) ELSE q)

\* the literal from the optional sign at p on
FloatSigned(s, p) ==
    FloatInteger(s, AfterSign(s, p), SignAt(s, p), SkipIn(s, AfterSign(s, p), Digits))

\* parseFloat(s): the longest prefix of s, after leading whitespace, that is a
\* decimal literal; NaN when there is none
ParseFloat(s) == FloatSigned(s, SkipIn(s, 1, Whitespace))

\* the digits s[p..q-1] after an optional sign
IntDigits(s, p, sign, q) ==
    IF q = p THEN NaN
    ELSE [kind |-> "number", m |-> sign * DigitsValue(Slice(s, p, q - 1)), e |-> 0]

IntSigned(s, p) ==
    IntDigits(s, AfterSign(s, p), SignAt(s, p), SkipIn(s, AfterSign(s, p), Digits))

\* parseInt(s, 10): the integer is kept in m, with e = 0
ParseInt(s) == IntSigned(s, SkipIn(s, 1, Whitespace))

\* the eight replacements, the first applied innermost
StripUnits(cleaned) ==
    ReplaceAll("comma",
        ReplaceAll("percent",
            ReplaceAll("times",
                ReplaceAll("yen",
                    ReplaceAll("sen?",
                        ReplaceAll("hyakuman?",
                            ReplaceAll("oku?",
                                ReplaceAll("cho?", cleaned))))))))

\* the parsed value is returned as it is, NaN included
NullIfNaN_Identity(parsed) == parsed

\* isNaN(parsed) ? null : parsed
NullIfNaN(parsed) == IF isNaN(parsed) THEN Null ELSE parsed

\* the positions of the character e in numStr: split("e") gives one part more
EPositions(numStr) == { i \in 1..Len(numStr) : numStr[i] = "e" }

\* base * Math.pow(10, exp) when both are numbers, else the final parseFloat
ScaledOrWhole(numStr, base, exp) ==
    IF ~isNaN(base) /\ ~isNaN(exp)
    THEN Number(base.m, base.e + exp.m)
    ELSE NullIfNaN(ParseFloat(numStr))

\* parts = numStr.split("e") with parts.length === 2: i is the position of the e
SplitAtE(numStr, i) ==
    ScaledOrWhole(numStr,
                  ParseFloat(Slice(numStr, 1, i - 1)),
                  ParseInt(Slice(numStr, i + 1, Len(numStr))))

\* the base is returned without its scale: the exponent is dropped
ParseNumStr_ScaleDropped(numStr) ==
    IF Cardinality(EPositions(numStr)) = 1
    THEN NullIfNaN(ParseFloat(Slice(numStr, 1, Min(EPositions(numStr)) - 1)))
    ELSE NullIfNaN(ParseFloat(numStr))

\* lines 40-53
ParseNumStr(numStr) ==
    IF Cardinality(EPositions(numStr)) = 1
    THEN SplitAtE(numStr, Min(EPositions(numStr)))
    ELSE NullIfNaN(ParseFloat(numStr))

\* the missing-value markers compared with the trimmed value
missingMarkers == { <<"-">>, <<>>, <<"N", "/", "A">> }

parseJapaneseNumber(value) ==
    IF Len(value) = 0 THEN Null
    ELSE IF Trim(value) \in missingMarkers THEN Null
    ELSE ParseNumStr(StripUnits(Trim(value)))

----------------------------------------------------------------------------
(* src/lib/metrics.ts: formatJapaneseNumber                                *)

RECURSIVE Pow10(_)
Pow10(k) == IF k = 0 THEN 1 ELSE 10 * Pow10(k - 1)

Abs(i) == IF i < 0 THEN -i ELSE i

Zeros(k) == [i \in 1..k |-> "0"]

\* the digits of the integer nearest to |m| * 10^k, a tie going to the larger
\* (m below 10^9; below 10^-9 the integer is 0)
RoundedDigits(m, k) ==
    IF k >= 0 THEN IF m = 0 THEN <<"0">> ELSE DecimalString(Abs(m)) \o Zeros(k)
    ELSE IF k < -9 THEN <<"0">>
    ELSE DecimalString((Abs(m) + 5 * Pow10(-k - 1)) \div Pow10(-k))

\* digits padded on the left with zeros to at least n characters
PadZeros(ds, n) == IF Len(ds) >= n THEN ds ELSE Zeros(n - Len(ds)) \o ds

\* padded digits ds with a decimal point before the last d of them
PointBefore(ds, d) ==
    IF d = 0 THEN ds
    ELSE Slice(ds, 1, Len(ds) - d) \o <<".">> \o Slice(ds, Len(ds) - d + 1, Len(ds))

\* x.toFixed(d) for a number x
ToFixed(x, d) ==
    (IF x.m < 0 THEN <<"-">> ELSE <<>>)
        \o PointBefore(PadZeros(RoundedDigits(x.m, x.e + d), d + 1), d)

\* integer digits with a comma before every group of three
RECURSIVE Grouped(_)
Grouped(ds) ==
    IF Len(ds) <= 3 THEN ds
    ELSE Grouped(Slice(ds, 1, Len(ds) - 3)) \o <<",">> \o Slice(ds, Len(ds) - 2, Len(ds))

\* the fraction digits fs without the zeros that end them, after a point if any
\* is left
FractionPart(fs) ==
    IF SkipBackIn(fs, Len(fs), {"0"}) = 0 THEN <<>>
    ELSE <<".">> \o Slice(fs, 1, SkipBackIn(fs, Len(fs), {"0"}))

\* ds: the digits of the value in thousandths, at least four of them
LocaleDigits(ds) ==
    Grouped(Slice(ds, 1, Len(ds) - 3)) \o FractionPart(Slice(ds, Len(ds) - 2, Len(ds)))

\* x.toLocaleString("ja-JP"): grouped integer digits and at most 3 fraction digits
ToLocaleString(x) ==
    (IF x.m < 0 THEN <<"-">> ELSE <<>>)
        \o LocaleDigits(PadZeros(RoundedDigits(x.m, x.e + 3), 4))

\* value / 10^k
DividedBy10(value, k) == Number(value.m, value.e - k)

\* value >= 10^k
AtLeast10(value, k) ==
    value.m > 0 /\ Len(DecimalString(value.m)) + value.e - 1 >= k

\* unit.includes(c) for a character c
HasChar(unit, c) == \E i \in 1..Len(unit) : unit[i] = c

\* lines 148-158: no unit given
FormatAuto(value) ==
    IF AtLeast10(value, 12) THEN ToFixed(DividedBy10(value, 12), 2) \o <<"Cho", "En">>
    ELSE IF AtLeast10(value, 8) THEN ToFixed(DividedBy10(value, 8), 0) \o <<"Oku", "En">>
    ELSE IF AtLeast10(value, 6)
    THEN ToFixed(DividedBy10(value, 6), 0) \o <<"Hyaku", "Man", "En">>
    ELSE ToLocaleString(value)

\* lines 160-171: format based on unit
FormatWithUnit(value, unit) ==
    IF HasChar(unit, "Cho") THEN ToFixed(DividedBy10(value, 12), 2) \o <<"Cho", "En">>
    ELSE IF HasChar(unit, "Oku") THEN ToFixed(DividedBy10(value, 8), 0) \o <<"Oku", "En">>
    ELSE IF HasChar(unit, "Bai") THEN ToFixed(value, 2) \o <<"Bai">>
    ELSE IF HasChar(unit, "%") THEN ToFixed(value, 2) \o <<"%">>
    ELSE ToLocaleString(value)

\* unit is <<>> when the argument is omitted or is the empty string
formatJapaneseNumber(value, unit) ==
    IF value.kind \in {"null", "NaN"} THEN <<"-">>
    ELSE IF Len(unit) = 0 THEN FormatAuto(value)
    ELSE FormatWithUnit(value, unit)

----------------------------------------------------------------------------
(* Inputs                                                                  *)

MaxWords == 4       \* words of a generated data line
MaxLines == 3       \* lines of a generated multi-line text
MaxTokenLen == 4    \* characters of a generated token
MaxHeaderWords == 4 \* words of a generated header line
MaxItems == 6       \* elements of a generated headers array
MaxContent == 4     \* symbols of a generated oracle reply

\* all sequences over S of length 0..n
SeqsUpTo(S, n) == UNION { [1..k -> S] : k \in 0..n }

wCode == <<"7", "2", "0", "3">>
wName == <<"To">>
w3M == <<"3", "M">>
wAmount == <<"1", "2", "Oku", "En">>
wDash == <<"-">>
wFive == <<"5">>
wOkuEn == <<"Oku", "En">>

RowWords == {wCode, wName, wDash, wFive, wOkuEn}

DataLines == { Join(ws, <<" ">>) : ws \in SeqsUpTo(RowWords, MaxWords) \ {<<>>} }

hKigyoKachi == <<"Ki", "Gyo", "Ka", "Chi">>           \* 企業価値
hJikaSougaku == <<"Ji", "Ka", "Sou", "Gaku">>         \* 時価総額
hPER == <<"P", "E", "R">>
hKai == <<"(", "Kai", ")">>                           \* (会)
hUriage == <<"Uri", "Age">>                           \* 売上
hMeigara == <<"Mei", "Gara">>                         \* 銘柄

\* 銘柄 企業価値 PER (会) 特徴語
HeaderLineA == Join(<<hMeigara, hKigyoKachi, hPER, hKai, tokuchoLabel>>, <<" ">>)
\* コード|PER
HeaderLineB == <<"Ko", "Choon", "Do", "|", "P", "E", "R">>
\* name PER PER
HeaderLineC == Join(<<<<"n", "a", "m", "e">>, hPER, hPER>>, <<" ">>)
\* 特徴語 ROE 特徴語
HeaderLineD == Join(<<tokuchoLabel, <<"R", "O", "E">>, tokuchoLabel>>, <<" ">>)

HeaderLines == {HeaderLineA, HeaderLineB, HeaderLineC, HeaderLineD}

\* 銘柄 企業価値 時価総額 PER (会) 売上 特徴語
SampleHeaderLine ==
    Join(<<hMeigara, hKigyoKachi, hJikaSougaku, hPER, hKai, hUriage, tokuchoLabel>>, <<" ">>)

\* 7203 トヨタ自動車 124,976億円 35兆円 8.5倍 45,095億円 好調
SampleDataLine ==
    Join(<< wCode,
            <<"To", "Yo", "Ta", "Zi", "Dou", "Sha">>,
            <<"1", "2", "4", ",", "9", "7", "6", "Oku", "En">>,
            <<"3", "5", "Cho", "En">>,
            <<"8", ".", "5", "Bai">>,
            <<"4", "5", ",", "0", "9", "5", "Oku", "En">>,
            <<"Kou", "Shira">> >>, <<" ">>)

SampleText == SampleHeaderLine \o <<"LF">> \o SampleDataLine

\* a header line (or none) followed by one generated data line
RowTexts ==
    { h \o <<"LF">> \o d : h \in HeaderLines, d \in DataLines } \cup DataLines

\* lines of the multi-line texts
TextLines ==
    { HeaderLineA,
      HeaderLineB,
      <<"x">>,
      <<"|">>,
      <<" ", "IdSp">>,
      Join(<<wCode, wName, wAmount, wFive>>, <<" ">>),
      <<" ">> \o Join(<<wName, wFive>>, <<"Tab">>) \o <<"CR">>,
      wCode }

MultiLineTexts == { Join(ls, <<"LF">>) : ls \in SeqsUpTo(TextLines, MaxLines) }

ParseTexts == RowTexts \cup MultiLineTexts \cup {SampleText}

TokenChars == {"1", ",", ".", "-", "N", "/", "a", "Oku", "En", "%", " "}

LongTokens ==
    { <<"1", "2", "4", ",", "9", "7", "6", "Oku", "En">>,
      <<"Minus", "1", ".", "5", "Cho", "En">>,
      <<"EmDash", "2", ".", "4", "FwPct">>,
      <<"EnDash">>,
      <<"8", ".", "5", "Bai">>,
      <<"7", "2", "0", "3", "M">>,
      w3M,
      <<"1", "0", "0", "Hyaku", "Man", "En">>,
      <<"IdSp", "N", "A", "Tab">>,
      <<"n", "/", "A">> }

Tokens == SeqsUpTo(TokenChars, MaxTokenLen) \cup LongTokens

HeaderWords ==
    { hPER, hKai, hMeigara, <<"n", "a", "m", "e">>, <<"(", ")">>, <<"(", "P", "E", "R">> }

GeneratedHeaderLines ==
    { Join(ws, <<" ">>) : ws \in SeqsUpTo(HeaderWords, MaxHeaderWords) }

\* 企業価値 時価総額 PER (会) 売上
SpecExampleHeaderLine ==
    Join(<<hKigyoKachi, hJikaSougaku, hPER, hKai, hUriage>>, <<" ">>)

HeaderLineInputs ==
    GeneratedHeaderLines
    \cup HeaderLines
    \cup { SpecExampleHeaderLine,
           SampleHeaderLine,
           <<" ", "|">> \o HeaderLineB \o <<"Tab", "c", "o", "d", "e", "|", "|", "(", "x", ")", "IdSp">> }

HeaderItems == { <<"P", "E">>, <<"R">>, hJikaSougaku }

aRow == [code |-> wCode, name |-> wName, cells |-> NoCells]

HeaderProps ==
    { NoProp, [type |-> "string", items |-> <<>>] }
    \cup { [type |-> "array", items |-> hs] : hs \in SeqsUpTo(HeaderItems, MaxItems) }
    \cup { [type |-> "array", items |-> <<hPER, hKai, hUriage, <<"x">>, <<"y">>>>] }

RowProps ==
    { NoProp,
      [type |-> "string", items |-> <<>>],
      [type |-> "array", items |-> <<>>],
      [type |-> "array", items |-> <<aRow>>] }

ParsedValues ==
    { [type |-> t, headers |-> NoProp, rows |-> NoProp] :
        t \in {"null", "zero", "number", "emptyString", "string", "array"} }
    \cup { [type |-> "object", headers |-> h, rows |-> r] : h \in HeaderProps, r \in RowProps }

\* what the oracle may send as the members of its object
OracleObjects ==
    { [type |-> "object", headers |-> h, rows |-> r] :
        h \in { NoProp,
                [type |-> "array", items |-> <<hKigyoKachi, hJikaSougaku, hPER, hUriage>>],
                [type |-> "array", items |-> <<hKigyoKachi, hJikaSougaku, hPER, hUriage, tokuchoLabel>>],
                [type |-> "array", items |-> <<<<"a">>, <<"b">>, <<"c">>, <<"d">>, <<"e">>>>] },
        r \in { NoProp,
                [type |-> "array", items |-> <<>>],
                [type |-> "array", items |-> <<aRow>>] } }

Contents == SeqsUpTo({"{", "}", "c", "M"}, MaxContent)

HasMembers(c) == \E k \in 1..Len(c) : c[k] = "M"

Replies ==
    { [kind |-> "content", content |-> c, obj |-> o] :
        c \in { x \in Contents : HasMembers(x) }, o \in OracleObjects }
    \cup { [NoReply EXCEPT !.kind = "content", !.content = c] :
        c \in { x \in Contents : ~HasMembers(x) } }

NoText == [type |-> "undefined", str |-> <<>>]

RequestTexts ==
    { [type |-> t, str |-> <<>>] : t \in {"undefined", "null", "zero", "number", "array"} }
    \cup { [type |-> "string", str |-> s] :
            s \in { <<>>, <<" ">>, <<"IdSp", "LF", "Tab">>,
                    HeaderLineA \o <<"LF">> \o Join(<<wCode, wName, wAmount, wFive>>, <<" ">>),
                    Join(<<wName, wFive, wOkuEn>>, <<" ">>),
                    <<" ">> \o HeaderLineB \o <<"CR", "LF">> \o wCode \o <<"LF", "|">> } }

Bodies ==
    { [json |-> FALSE, text |-> NoText] }
    \cup { [json |-> TRUE, text |-> t] : t \in RequestTexts }

----------------------------------------------------------------------------
(* Specifications                                                          *)

\* the handler has not been called
\* the tables before any document is inserted
NoTables ==
    [ nextId |-> 1, tabs |-> <<>>, tabCompanies |-> <<>>, cases |-> <<>>,
      caseSnapshots |-> <<>>, historicalData |-> <<>> ]

\* no request to POST is under way
PostIdle ==
    /\ body = [json |-> FALSE, text |-> NoText]
    /\ client = FALSE
    /\ reply = NoReply
    /\ response = NoResponse
    /\ oracleCalls = 0
    /\ heuristicCalls = 0

postVars == <<body, client, reply, response, oracleCalls, heuristicCalls>>

HandlerIdle == PostIdle /\ db = NoTables /\ now = 0

handlerVars == <<postVars, db, now>>

\* one request to POST
Init ==
    /\ pc = "start"
    /\ body \in Bodies
    /\ client \in BOOLEAN
    /\ reply = NoReply
    /\ response = NoResponse
    /\ oracleCalls = 0
    /\ heuristicCalls = 0
    /\ arg = <<>>
    /\ ret = <<>>
    /\ db = NoTables
    /\ now = 0

Next ==
    \/ Receive
    \/ OracleThrows
    \/ \E r \in Replies : OracleReplies(r)

Spec == Init /\ [][Next]_vars

\* one call of heuristicParse
CallHeuristicParse ==
    /\ pc = "call"
    /\ ret' = heuristicParse(arg)
    /\ pc' = "returned"
    /\ UNCHANGED <<arg, handlerVars>>

InitParse ==
    /\ pc = "call" /\ HandlerIdle
    /\ arg \in ParseTexts
    /\ ret = [headers |-> <<>>, rows |-> <<>>]

SpecParse == InitParse /\ [][CallHeuristicParse]_vars

\* one call of isNumericLikeToken
CallIsNumericLikeToken ==
    /\ pc = "call"
    /\ ret' = isNumericLikeToken(arg)
    /\ pc' = "returned"
    /\ UNCHANGED <<arg, handlerVars>>

InitToken ==
    /\ pc = "call" /\ HandlerIdle
    /\ arg \in Tokens
    /\ ret = FALSE

SpecToken == InitToken /\ [][CallIsNumericLikeToken]_vars

\* one call of tokenizeHeader
CallTokenizeHeader ==
    /\ pc = "call"
    /\ ret' = tokenizeHeader(arg)
    /\ pc' = "returned"
    /\ UNCHANGED <<arg, handlerVars>>

InitHeader ==
    /\ pc = "call" /\ HandlerIdle
    /\ arg \in HeaderLineInputs
    /\ ret = <<>>

SpecHeader == InitHeader /\ [][CallTokenizeHeader]_vars

\* one call of isValidParsed
CallIsValidParsed ==
    /\ pc = "call"
    /\ ret' = isValidParsed(arg)
    /\ pc' = "returned"
    /\ UNCHANGED <<arg, handlerVars>>

InitValid ==
    /\ pc = "call" /\ HandlerIdle
    /\ arg \in ParsedValues
    /\ ret = FALSE

\* calls of isValidParsed: direct ones, and the one POST makes on an oracle reply
SpecValid == (InitValid \/ Init) /\ [][CallIsValidParsed \/ Next]_vars

----------------------------------------------------------------------------
(* Properties of heuristicParse, under SpecParse                           *)

\* the data lines of a text, as the parser takes them
DataLinesOf(text) ==
    LET lines == Lines(text)
        h == headerIdxOf(lines)
    IN JsSlice(lines, IF h >= 0 THEN h + 1 ELSE 0, Len(lines))

\* the token lists of the data lines that yield at least one token
DataTokens(text) ==
    LET dataLines == DataLinesOf(text)
    IN SelectSeq([k \in 1..Len(dataLines) |-> tokenizeRow(dataLines[k])],
                 LAMBDA t : Len(t) >= 1)

\* the row tokens after the optional code
RestOf(tokens) == IF IsCodeToken(tokens[1]) THEN Tail(tokens) ELSE tokens

NumericCountOf(headers) ==
    IF Len(headers) > 0 /\ headers[Len(headers)] = tokuchoLabel
    THEN Len(headers) - 1
    ELSE Len(headers)

\* the offsets i >= 1 at which numericCount numeric-like tokens start in rest
ValidOffsets(rest, numericCount) ==
    { i \in 1..Len(rest) :
        /\ i + numericCount <= Len(rest)
        /\ \A n \in 1..numericCount : isNumericLikeToken(rest[i + n]) }

HeaderSet(headers) == { headers[n] : n \in 1..Len(headers) }

\* row k of the result was parsed against the returned headers from token list k
RowCase(k) ==
    /\ pc = "returned"
    /\ k \in 1..Len(ret.rows)
    /\ k <= Len(DataTokens(arg))
    /\ Len(ret.headers) > 0

\* C1: for a data line parsed against non-empty headers, the split offset is the
\* smallest i >= 1 with numericCount numeric-like tokens rest[i .. i+numericCount-1]
\* inside rest: the name is exactly rest[0 .. i-1], so no larger offset is used when
\* a smaller one is valid and offset 0 is never used.
C1_LeftmostOffset ==
    \A k \in 1..Len(ret.rows) :
        RowCase(k) =>
            LET rest == RestOf(DataTokens(arg)[k])
                V == ValidOffsets(rest, NumericCountOf(ret.headers))
            IN V # {} =>
                /\ Min(V) >= 1
                /\ ret.rows[k].name = Join(JsSlice(rest, 0, Min(V)), <<" ">>)

\* a row with two valid offsets whose first token is itself numeric-like
C1_Witness ==
    \E k \in 1..Len(ret.rows) :
        /\ RowCase(k)
        /\ LET rest == RestOf(DataTokens(arg)[k])
               V == ValidOffsets(rest, NumericCountOf(ret.headers))
           IN /\ Cardinality(V) >= 2
              /\ isNumericLikeToken(rest[1])
              /\ ret.rows[k].name = rest[1]

\* C2 as stated: with a valid offset i, the name is rest[0..i-1], headers[n] maps to
\* rest[i+n] for every n < numericCount, 特徴語 as last header maps to the joined
\* remainder, and every value under a numeric header is numeric-like.
C2_EveryHeaderMapsToItsColumn ==
    \A k \in 1..Len(ret.rows) :
        RowCase(k) =>
            LET headers == ret.headers
                row == ret.rows[k]
                rest == RestOf(DataTokens(arg)[k])
                nc == NumericCountOf(headers)
                V == ValidOffsets(rest, nc)
            IN V # {} =>
                /\ row.name = Join(JsSlice(rest, 0, Min(V)), <<" ">>)
                /\ DOMAIN row.cells = HeaderSet(headers)
                /\ \A n \in 1..nc :
                      /\ row.cells[headers[n]] = rest[Min(V) + n]
                      /\ isNumericLikeToken(row.cells[headers[n]])
                /\ nc < Len(headers) =>
                      row.cells[headers[Len(headers)]] =
                          Join(JsSlice(rest, Min(V) + nc, Len(rest)), <<" ">>)

\* the row the parser must return for the sample line
SampleRow ==
    [ code |-> wCode,
      name |-> <<"To", "Yo", "Ta", "Zi", "Dou", "Sha">>,
      cells |->
        [ h \in {hKigyoKachi, hJikaSougaku, hPER \o <<" ">> \o hKai, hUriage, tokuchoLabel} |->
            CASE h = hKigyoKachi -> <<"1", "2", "4", ",", "9", "7", "6", "Oku", "En">>
              [] h = hJikaSougaku -> <<"3", "5", "Cho", "En">>
              [] h = hUriage -> <<"4", "5", ",", "0", "9", "5", "Oku", "En">>
              [] h = tokuchoLabel -> <<"Kou", "Shira">>
              [] OTHER -> <<"8", ".", "5", "Bai">> ] ]

\* C2 (amended): with a valid offset i, the name is rest[0..i-1] joined by single
\* spaces; the row's keys are the header names; headers[n] maps to rest[i+n] for
\* every n < numericCount whose name does not occur again later in headers (a
\* repeated name keeps the value of its last column); 特徴語 as last header maps to
\* the joined remainder; every value under a name other than that trailing 特徴語
\* is numeric-like; and the sample line gives code 7203, name トヨタ自動車, 特徴語 好調.
C2_AlignedRow ==
    /\ \A k \in 1..Len(ret.rows) :
        RowCase(k) =>
            LET headers == ret.headers
                row == ret.rows[k]
                rest == RestOf(DataTokens(arg)[k])
                nc == NumericCountOf(headers)
                V == ValidOffsets(rest, nc)
            IN V # {} =>
                /\ row.name = Join(JsSlice(rest, 0, Min(V)), <<" ">>)
                /\ DOMAIN row.cells = HeaderSet(headers)
                /\ \A n \in 1..nc :
                      (\A n2 \in (n + 1)..Len(headers) : headers[n2] # headers[n]) =>
                          row.cells[headers[n]] = rest[Min(V) + n]
                /\ nc < Len(headers) =>
                      row.cells[headers[Len(headers)]] =
                          Join(JsSlice(rest, Min(V) + nc, Len(rest)), <<" ">>)
                /\ \A h \in DOMAIN row.cells :
                      (nc = Len(headers) \/ h # tokuchoLabel) =>
                          isNumericLikeToken(row.cells[h])
    /\ (pc = "returned" /\ arg = SampleText) => ret.rows = <<SampleRow>>

\* a row with a two-token name, a repeated header name whose two columns differ,
\* or a non-empty 特徴語 remainder
C2_Witness ==
    \E k \in 1..Len(ret.rows) :
        /\ RowCase(k)
        /\ LET headers == ret.headers
               rest == RestOf(DataTokens(arg)[k])
               nc == NumericCountOf(headers)
               V == ValidOffsets(rest, nc)
           IN /\ V # {}
              /\ Min(V) = 2
              /\ nc = 2
              /\ headers[1] = headers[2]
              /\ rest[Min(V) + 1] # rest[Min(V) + 2]

\* C3: every row has, apart from code and name, only keys that are elements of the
\* returned headers, for every input text.
C3_KeysAreHeaders ==
    pc = "returned" =>
        \A k \in 1..Len(ret.rows) : DOMAIN ret.rows[k].cells \subseteq HeaderSet(ret.headers)

\* a run of numericCount consecutive numeric-like tokens somewhere in the line
AnyRun(tokens, numericCount) ==
    \E i \in 0..(Len(tokens) - numericCount) :
        \A n \in 1..numericCount : isNumericLikeToken(tokens[i + n])

\* the cells of the fallback tier: headers[n] := valueTokens[n] for n up to the
\* shorter length, in order
PositionalCells(cells, headers, valueTokens) ==
    LET m == IF Len(headers) < Len(valueTokens) THEN Len(headers) ELSE Len(valueTokens)
    IN /\ DOMAIN cells = { headers[n] : n \in 1..m }
       /\ \A h \in DOMAIN cells :
             cells[h] = valueTokens[Max({ n \in 1..m : headers[n] = h })]

\* C7 as stated: when no run of numericCount numeric-like tokens exists in the data
\* line, the name is the token following the code (the first token when there is no
\* code) and the tokens after the name fill the headers by position.
C7_NameFollowsCode ==
    \A k \in 1..Len(ret.rows) :
        RowCase(k) =>
            LET tokens == DataTokens(arg)[k]
                row == ret.rows[k]
                hasCode == IsCodeToken(tokens[1])
            IN ~AnyRun(tokens, NumericCountOf(ret.headers)) =>
                /\ IF hasCode THEN Len(tokens) >= 2 /\ row.name = tokens[2]
                              ELSE row.name = tokens[1]
                /\ PositionalCells(row.cells, ret.headers,
                                   Slice(tokens, IF hasCode THEN 3 ELSE 2, Len(tokens)))

\* C7 (amended): when no run of numericCount numeric-like tokens exists in the data
\* line, the name is the token following the code, or the first token when there
\* is no code or no token follows the code; the tokens after the name are assigned
\* headers[n] := valueTokens[n] for exactly the n < min(|headers|, |valueTokens|),
\* and no other header key is set.
C7_Fallback ==
    \A k \in 1..Len(ret.rows) :
        RowCase(k) =>
            LET tokens == DataTokens(arg)[k]
                row == ret.rows[k]
                hasCode == IsCodeToken(tokens[1])
            IN ~AnyRun(tokens, NumericCountOf(ret.headers)) =>
                /\ row.name = IF hasCode /\ Len(tokens) >= 2 THEN tokens[2] ELSE tokens[1]
                /\ PositionalCells(row.cells, ret.headers,
                                   Slice(tokens, IF hasCode THEN 3 ELSE 2, Len(tokens)))

\* a fallback row with a code, a name and fewer value tokens than headers
C7_Witness ==
    \E k \in 1..Len(ret.rows) :
        /\ RowCase(k)
        /\ LET tokens == DataTokens(arg)[k]
           IN /\ ~AnyRun(tokens, NumericCountOf(ret.headers))
              /\ IsCodeToken(tokens[1])
              /\ Len(tokens) >= 3
              /\ Len(tokens) - 2 < Len(ret.headers)
              /\ ret.rows[k].cells # NoCells

\* the lines of a text: the pieces between line breaks that hold a character
\* other than whitespace, without their surrounding whitespace
TextLinesOf(text) ==
    FilterNonEmpty(MapTrim(Split(text, {"LF", "CR"})))

\* a line that yields at least one token
HasToken(l) == \E p \in 1..Len(l) : l[p] \notin Separators

\* the lines that must give a row: those after the first header line, or all of
\* them when there is no header line, that yield a token
ExpectedRowLines(text) ==
    LET lines == TextLinesOf(text)
        H == { i \in 1..Len(lines) : IsHeaderLine(lines[i]) }
        from == IF H = {} THEN 1 ELSE Min(H) + 1
    IN SelectSeq(Slice(lines, from, Len(lines)), HasToken)

\* C8: heuristicParse returns, for every text, exactly one row per non-empty line
\* after the detected header line (per non-empty line when none is detected) that
\* yields a token, in input order; lines up to the header line give no row; every
\* row has a non-empty name.
C8_OneRowPerDataLine ==
    pc = "returned" =>
        LET expected == ExpectedRowLines(arg)
        IN /\ Len(ret.rows) = Len(expected)
           /\ \A k \in 1..Len(ret.rows) :
                LET row == ret.rows[k]
                    tokens == tokenizeRow(expected[k])
                    first == IF IsCodeToken(tokens[1]) /\ Len(tokens) >= 2 THEN 2 ELSE 1
                IN /\ Len(row.name) > 0
                   /\ row.code = IF IsCodeToken(tokens[1]) THEN tokens[1] ELSE Undefined
                   /\ \E n \in first..Len(tokens) :
                         row.name = Join(Slice(tokens, first, n), <<" ">>)

\* a text with a line before the header line and one data line after it
C8_Witness ==
    /\ pc = "returned"
    /\ Len(ret.rows) = 1
    /\ Len(ret.headers) > 0
    /\ Len(TextLinesOf(arg)) = 3
    /\ ~IsHeaderLine(TextLinesOf(arg)[1])
    /\ IsHeaderLine(TextLinesOf(arg)[2])

----------------------------------------------------------------------------
(* Properties of POST, under Spec                                          *)

\* the text between the first "{" and the last "}" of a reply, <<>> if there is
\* no "{" before a "}"
BraceSpan(c) ==
    LET opens == { i \in 1..Len(c) : c[i] = "{" }
        closes == { j \in 1..Len(c) : c[j] = "}" }
    IN IF opens # {} /\ closes # {} /\ Min(opens) < Max(closes)
       THEN SubSeq(c, Min(opens), Max(closes))
       ELSE <<>>

\* the oracle attempt gave nothing acceptable
OracleFailed(r) ==
    \/ r.kind = "throws"
    \/ /\ r.kind = "content"
       /\ \/ BraceSpan(r.content) = <<>>
          \/ ~JsonParses(BraceSpan(r.content))
          \/ ~isValidParsed(JsonParse(BraceSpan(r.content), r.obj))
          \/ /\ BraceSpan(r.content) = <<"{", "M", "}">>
             /\ \/ r.obj.rows.type = "undefined"
                \/ Len(r.obj.headers.items) < 5

\* C4: for a non-empty text with the oracle configured, when the oracle call
\* throws, its reply has no {...} span, the span is not valid JSON or the parsed
\* object fails the validator, the response is exactly the heuristic parser's
\* {headers, rows} for the text and no error is surfaced.
C4_OracleFailureFallsBack ==
    (pc = "done" /\ reply.kind # "none" /\ OracleFailed(reply)) =>
        /\ response.status = 200
        /\ response.error = ""
        /\ response.headers = heuristicParse(body.text.str).headers
        /\ response.rows = heuristicParse(body.text.str).rows

\* a reply with commentary around an object that has no rows key, answered with
\* the heuristic rows
C4_Witness ==
    /\ pc = "done"
    /\ reply.kind = "content"
    /\ reply.content = <<"c", "{", "M", "}">>
    /\ reply.obj.rows.type = "undefined"
    /\ reply.obj.headers.type = "array"
    /\ response.status = 200
    /\ Len(response.rows) > 0

\* the request carries no text: the body is unreadable, or its text is missing,
\* empty or whitespace-only
TextAbsentOrBlank(b) ==
    \/ ~b.json
    \/ b.text.type \in {"undefined", "null"}
    \/ b.text.type = "string" /\ \A p \in 1..Len(b.text.str) : b.text.str[p] \in Whitespace

IsError(r) == r.status # 200 \/ r.error # ""

\* C6 as stated: an error indicator is returned exactly when the request text is
\* missing, empty or whitespace-only, then without any oracle or heuristic call;
\* every other request gets a {headers, rows} table.
C6_ErrorIffNoText ==
    pc = "done" =>
        /\ IsError(response) <=> TextAbsentOrBlank(body)
        /\ IsError(response) => oracleCalls = 0 /\ heuristicCalls = 0
        /\ ~IsError(response) => response.status = 200 /\ response.error = ""

\* C6 (amended): an error indicator is returned exactly when the request text is
\* missing, empty, whitespace-only or not a string, then without any oracle or
\* heuristic call; every other request gets a {headers, rows} table, whatever the
\* oracle does.
C6_ErrorIffNoUsableText ==
    pc = "done" =>
        /\ IsError(response) <=> (TextAbsentOrBlank(body) \/ body.text.type # "string")
        /\ IsError(response) => oracleCalls = 0 /\ heuristicCalls = 0
        /\ ~IsError(response) => response.status = 200 /\ response.error = ""

\* a whitespace-only text answered with an error and no parser call
C6_Witness ==
    /\ pc = "done"
    /\ body.text.type = "string"
    /\ Len(body.text.str) > 0
    /\ TextAbsentOrBlank(body)
    /\ IsError(response)
    /\ oracleCalls = 0
    /\ heuristicCalls = 0

\* the oracle attempt has ended with a result that was accepted
OracleAccepted(r) == r.kind = "content" /\ ~OracleFailed(r)

\* C23: within one request the oracle is invoked at most once, the heuristic
\* parser runs at most once and only when no oracle is configured or after the
\* oracle attempt has ended without an accepted result, and an accepted oracle
\* result is returned without the heuristic parser running.
C23_OracleOnceThenHeuristic ==
    /\ oracleCalls <= 1 /\ heuristicCalls <= 1
    /\ ~client => oracleCalls = 0
    /\ pc = "awaitOracle" => (oracleCalls = 1 /\ heuristicCalls = 0 /\ reply.kind = "none")
    /\ heuristicCalls = 1 =>
          /\ pc = "done"
          /\ \/ ~client /\ oracleCalls = 0
             \/ oracleCalls = 1 /\ OracleFailed(reply)
    /\ (pc = "done" /\ OracleAccepted(reply)) =>
          /\ oracleCalls = 1 /\ heuristicCalls = 0
          /\ response.status = 200 /\ response.error = ""
          /\ response.headers = JsonParse(BraceSpan(reply.content), reply.obj).headers.items
          /\ response.rows = JsonParse(BraceSpan(reply.content), reply.obj).rows.items

\* an accepted oracle result, returned after one oracle call and no heuristic run
C23_Witness ==
    /\ pc = "done"
    /\ OracleAccepted(reply)
    /\ oracleCalls = 1
    /\ heuristicCalls = 0
    /\ Len(response.rows) > 0

----------------------------------------------------------------------------
(* Properties of isValidParsed, under SpecValid                            *)

financialKeywords ==
    { hPER, <<"Ji", "Ka">>, hKigyoKachi, <<"R", "O", "E">>, hUriage }

\* an object with at least 5 headers, one of which holds a financial keyword,
\* and with at least one row
Acceptable(p) ==
    /\ p.type = "object"
    /\ p.headers.type = "array"
    /\ Len(p.headers.items) >= 5
    /\ \E n \in 1..Len(p.headers.items) :
          \E w \in financialKeywords : Includes(p.headers.items[n], w)
    /\ p.rows.type = "array"
    /\ Len(p.rows.items) >= 1

\* C5: isValidParsed(p) is true iff p is an object whose headers is an array of
\* length >= 5 with one of PER, 時価, 企業価値, ROE, 売上 as a substring of the header
\* text (the headers joined by line breaks) and whose rows is a non-empty array;
\* POST returns an oracle result only when the predicate is true.
C5_ValidatorAccepts ==
    /\ pc = "returned" => (ret <=> Acceptable(arg))
    /\ (pc = "done" /\ reply.kind = "content" /\ heuristicCalls = 0 /\ ~IsError(response)) =>
          /\ Acceptable(reply.obj)
          /\ response.headers = reply.obj.headers.items
          /\ response.rows = reply.obj.rows.items

\* exactly 5 headers with a keyword inside a longer header, accepted
C5_Witness ==
    /\ pc = "returned"
    /\ ret = TRUE
    /\ Len(arg.headers.items) = 5
    /\ \A n \in 1..5 : arg.headers.items[n] \notin financialKeywords

----------------------------------------------------------------------------
(* Properties of isNumericLikeToken, under SpecToken                       *)

\* t without its leading and trailing whitespace
Trimmed(t) ==
    LET inner == { p \in 1..Len(t) : t[p] \notin Whitespace }
    IN IF inner = {} THEN <<>> ELSE SubSeq(t, Min(inner), Max(inner))

\* a single dash-like character or an N/A spelling
MissingMarker(t) ==
    \/ t \in { <<"-">>, <<"Minus">>, <<"EnDash">>, <<"EmDash">> }
    \/ t \in { <<x, y>> : x \in {"N", "n"}, y \in {"A", "a"} }
    \/ t \in { <<x, "/", y>> : x \in {"N", "n"}, y \in {"A", "a"} }

\* sign? digit (digit|,)* (. digits)? unit? : t splits into a sign of length s, an
\* integer part ending at e, a fraction ending at f and a unit
NumericGrammar(t) ==
    \E s \in {0, 1} : \E e \in (s + 1)..Len(t) : \E f \in e..Len(t) :
        /\ s = 1 => t[1] \in {"-", "Minus", "EnDash", "EmDash"}
        /\ t[s + 1] \in Digits
        /\ \A p \in (s + 1)..e : t[p] \in Digits \cup {","}
        /\ f > e => /\ f >= e + 2
                    /\ t[e + 1] = "."
                    /\ \A p \in (e + 2)..f : t[p] \in Digits
        /\ SubSeq(t, f + 1, Len(t)) \in
              { <<>>, <<"Cho", "En">>, <<"Oku", "En">>, <<"En">>, <<"Bai">>, <<"%">>, <<"FwPct">> }

\* C9: isNumericLikeToken(t) is true iff the trimmed token is a missing-value marker
\* or the whole trimmed token matches sign? digit (digit|,)* (. digits)? unit?;
\* tokens that only start with digits and empty or whitespace-only tokens are not
\* numeric.
C9_NumericLikeIffGrammar ==
    pc = "returned" =>
        /\ ret <=> (MissingMarker(Trimmed(arg)) \/ NumericGrammar(Trimmed(arg)))
        /\ Trimmed(arg) = <<>> => ~ret
        /\ arg \in { w3M, <<"7", "2", "0", "3", "M">>, <<"1", "0", "0", "Hyaku", "Man", "En">> } => ~ret

\* a token that starts with a number and is rejected for what follows it
C9_Witness ==
    /\ pc = "returned"
    /\ ret = FALSE
    /\ Len(arg) >= 3
    /\ NumericGrammar(SubSeq(arg, 1, Len(arg) - 1))
    /\ arg[Len(arg)] \notin Whitespace

----------------------------------------------------------------------------
(* Properties of tokenizeHeader, under SpecHeader                          *)

\* the tokens of a line: its maximal runs of characters that are neither
\* whitespace nor "|"
RunsOf(line) == FilterNonEmpty(Split(line, Whitespace \cup {"|"}))

\* a fully parenthesised token (...)
Parenthesised(t) == Len(t) >= 3 /\ t[1] = "(" /\ t[Len(t)] = ")"

identifierLabels ==
    { hMeigara, <<"Ki", "Gyo", "Na">>, <<"Mei", "Gara", "Na">>, <<"Ko", "Choon", "Do">>,
      <<"c", "o", "d", "e">>, <<"n", "a", "m", "e">>, <<"Misao", "Saku">> }

\* token i of a line starts a header: it is the first token or is not parenthesised
StartsHeader(base, i) == i = 1 \/ ~Parenthesised(base[i])

\* the header that starts at token i: the token and the parenthesised tokens
\* that follow it directly, joined by single spaces
HeaderAt(base, i) ==
    LET next == { j \in (i + 1)..Len(base) : ~Parenthesised(base[j]) } \cup {Len(base) + 1}
    IN Join(SubSeq(base, i, Min(next) - 1), <<" ">>)

\* the headers of a line, in order, without those equal to an identifier label
ExpectedHeaders(line) ==
    LET base == RunsOf(line)
        starts == SelectSeq([i \in 1..Len(base) |-> i], LAMBDA i : StartsHeader(base, i))
    IN SelectSeq([n \in 1..Len(starts) |-> HeaderAt(base, starts[n])],
                 LAMBDA h : h \notin identifierLabels)

\* C10: tokenizeHeader keeps the token order, appends every fully parenthesised
\* token that has a preceding token to that token instead of emitting it, returns
\* no token equal to an identifier label (so never code or name), and gives
\* [企業価値, 時価総額, PER (会), 売上] for the line 企業価値 時価総額 PER (会) 売上.
C10_HeaderTokens ==
    pc = "returned" =>
        /\ ret = ExpectedHeaders(arg)
        /\ \A n \in 1..Len(ret) : ret[n] \notin identifierLabels
        /\ \A n \in 2..Len(ret) : ~(Parenthesised(ret[n]) /\ RunsOf(ret[n]) = <<ret[n]>>)
        /\ arg = SpecExampleHeaderLine =>
              ret = <<hKigyoKachi, hJikaSougaku, hPER \o <<" ">> \o hKai, hUriage>>

\* a line with a label, a label followed by a parenthesised token, and a header
C10_Witness ==
    /\ pc = "returned"
    /\ arg = Join(<<hMeigara, hMeigara, hKai, hPER>>, <<" ">>)
    /\ ret = <<hMeigara \o <<" ">> \o hKai, hPER>>


----------------------------------------------------------------------------
(* mergeNumberUnits called on its own                                      *)

MaxMergeLen == 4    \* characters of a generated input of mergeNumberUnits

MergeChars == {"1", ",", ".", " ", "N", "a", "/", "Oku", "En", "Bai", "%", "FwPct"}

LongMergeInputs ==
    { <<"4", ",", "8", "5", "5", " ", "Oku", "En">>,        \* 4,855 億円
      <<"4", "2", ".", "4", " ", "Bai">>,                   \* 42.4 倍
      <<"2", ".", "4", " ", "FwPct">>,                      \* 2.4 ％
      <<"1", " ", "Cho", "Tab", "En", " ", "n", " ", "/", "IdSp", "A">>,
      <<"x", "n", "/", "a", "y", " ", "1", " ", "M">>,
      <<"1", ".", "2", ".", "3", " ", " ", "En", " ", "1", " ", "1", "%">> }

MergeInputs == SeqsUpTo(MergeChars, MaxMergeLen) \cup LongMergeInputs

\* one call of mergeNumberUnits
CallMergeNumberUnits ==
    /\ pc = "call"
    /\ ret' = mergeNumberUnits(arg)
    /\ pc' = "returned"
    /\ UNCHANGED <<arg, handlerVars>>

InitMerge ==
    /\ pc = "call" /\ HandlerIdle
    /\ arg \in MergeInputs
    /\ ret = <<>>

SpecMerge == InitMerge /\ [][CallMergeNumberUnits]_vars

----------------------------------------------------------------------------
(* Properties of mergeNumberUnits, under SpecMerge                         *)

\* C11: normalizing a normalized string changes nothing:
\* mergeNumberUnits(mergeNumberUnits(x)) = mergeNumberUnits(x).
C11_Idempotent == pc = "returned" => mergeNumberUnits(ret) = ret

\* an input whose whitespace and N/A spelling the first pass rewrites
C11_Witness ==
    /\ pc = "returned"
    /\ arg = <<"1", " ", "Cho", "Tab", "En", " ", "n", " ", "/", "IdSp", "A">>
    /\ ret = <<"1", "Cho", "En", " ", "N", "/", "A">>

\* the positions of s that hold no whitespace, in order
InkPositions(s) ==
    SelectSeq([i \in 1..Len(s) |-> i], LAMBDA i : s[i] \notin Whitespace)

\* position i of s lies in an N/A variant that stands between whitespace or the
\* ends of s
InDelimitedNA(s, i) ==
    \E p \in 1..i :
        /\ MatchNA(s, p).end > i
        /\ p = 1 \/ s[p - 1] \in Whitespace
        /\ MatchNA(s, p).end > Len(s) \/ s[MatchNA(s, p).end] \in Whitespace

\* C12: the characters other than whitespace pass through in order and unchanged,
\* except that a full-width percent sign becomes % and the letters of an N/A
\* variant standing as a word of its own become N/A; the letters n, /, a inside
\* a longer word are not rewritten.
C12_LettersInsideWordsKept ==
    pc = "returned" =>
        /\ Len(InkPositions(ret)) = Len(InkPositions(arg))
        /\ \A k \in 1..Len(InkPositions(arg)) :
              \/ InDelimitedNA(arg, InkPositions(arg)[k])
              \/ ret[InkPositions(ret)[k]] =
                    IF arg[InkPositions(arg)[k]] = "FwPct" THEN "%"
                    ELSE arg[InkPositions(arg)[k]]

----------------------------------------------------------------------------
(* parseJapaneseNumber called on its own                                   *)

MaxNumLen == 4      \* characters of a generated argument of parseJapaneseNumber

NumberChars == {"1", "5", ",", ".", "-", "Oku", "Sen", "En", "x", " "}

LongNumberStrings ==
    { <<"8", ",", "5", "0", "0", "Hyaku", "Man", "En">>,        \* 8,500百万円
      <<"4", ",", "8", "5", "5", "Oku", "En">>,                 \* 4,855億円
      <<"1", "2", ".", "5", "Bai">>,                            \* 12.5倍
      <<"1", "5", ".", "3", "%">>,                              \* 15.3%
      <<"3", "5", "Cho", "En">>,                                \* 35兆円
      <<"1", ".", "5", "Cho">>,                                 \* 1.5兆
      <<"3", "Hyaku", "Man">>,                                  \* 3百万
      <<"2", "0", "Sen", "En">>,                                \* 20千円
      <<"1", "Cho", "2", "Oku", "En">>,                         \* 1兆2億円
      <<"5", "Oku", "En", "x", "y">>,
      <<"N", "/", "A">>, <<"n", "/", "a">>, <<"N", " ", "/", " ", "A">>,
      <<"N", "A">>, <<"n", "a">>, <<"n", "/", "A">>, <<" ", "N", "/", "A", "Tab">>,
      <<"Minus">>, <<"EnDash">>, <<"EmDash">>, <<"IdSp", "EmDash", " ">> }

NumberStrings == SeqsUpTo(NumberChars, MaxNumLen) \cup LongNumberStrings

\* one call of parseJapaneseNumber
CallParseJapaneseNumber ==
    /\ pc = "call"
    /\ ret' = parseJapaneseNumber(arg)
    /\ pc' = "returned"
    /\ UNCHANGED <<arg, handlerVars>>

InitNumber ==
    /\ pc = "call" /\ HandlerIdle
    /\ arg \in NumberStrings
    /\ ret = NaN

SpecNumber == InitNumber /\ [][CallParseJapaneseNumber]_vars

----------------------------------------------------------------------------
(* Properties of parseJapaneseNumber, under SpecNumber                     *)

\* the units and the power of ten each stands for
unitScale ==
    [u \in { <<"Cho">>, <<"Cho", "En">>, <<"Oku">>, <<"Oku", "En">>,
             <<"Hyaku", "Man">>, <<"Hyaku", "Man", "En">>, <<"Sen">>, <<"Sen", "En">>,
             <<"En">>, <<"Bai">>, <<"%">>, <<>> } |->
        CASE At(u, 1) = "Cho" -> 12
          [] At(u, 1) = "Oku" -> 8
          [] At(u, 1) = "Hyaku" -> 6
          [] At(u, 1) = "Sen" -> 3
          [] OTHER -> 0]

\* a plain decimal numeral: a digit, digits and commas, an optional fraction
PlainNumeral(s) == Len(s) > 0 /\ NumEnd(s, 1) = Len(s) + 1

\* the digits of a plain numeral before its decimal point, and after it
WholeDigits(s) ==
    SelectSeq(Slice(s, 1, Min({ i \in 1..Len(s) : s[i] = "." } \cup {Len(s) + 1}) - 1),
              LAMBDA c : c \in Digits)

FractionDigits(s) ==
    Slice(s, Min({ i \in 1..Len(s) : s[i] = "." } \cup {Len(s) + 1}) + 1, Len(s))

\* the number a plain numeral denotes, times 10^k
NumeralTimes(s, k) ==
    Number(DigitsValue(WholeDigits(s) \o FractionDigits(s)), k - Len(FractionDigits(s)))

\* C13: a plain decimal numeral n followed by at most one unit parses to n times
\* the power of ten of that unit: 10^12 for 兆/兆円, 10^8 for 億/億円, 10^6 for
\* 百万/百万円, 10^3 for 千/千円, 1 for 円, 倍, % and no unit.
C13_ScaledByUnit ==
    pc = "returned" =>
        \A k \in 1..Len(arg) :
            (PlainNumeral(Slice(arg, 1, k)) /\ Slice(arg, k + 1, Len(arg)) \in DOMAIN unitScale)
                => ret = NumeralTimes(Slice(arg, 1, k), unitScale[Slice(arg, k + 1, Len(arg))])

\* 8,500百万円 gives 8,500,000,000
C13_Witness ==
    /\ pc = "returned"
    /\ arg = <<"8", ",", "5", "0", "0", "Hyaku", "Man", "En">>
    /\ ret = [kind |-> "number", m |-> 85, e |-> 8]

\* a complete numeral: an optional sign, digits with an optional fraction, and
\* at most one exponent mark e followed by digits (what one unit leaves)
WholeNumeral(numStr) ==
    \E p \in {1, 2} :
        /\ p = 2 => At(numStr, 1) \in {"+", "-"}
        /\ NumEnd(numStr, p) > 0
        /\ \/ NumEnd(numStr, p) = Len(numStr) + 1
           \/ /\ At(numStr, NumEnd(numStr, p)) = "e"
              /\ NumEnd(numStr, p) < Len(numStr)
              /\ \A i \in (NumEnd(numStr, p) + 1)..Len(numStr) : numStr[i] \in Digits

\* C14: when what is left of the value after the unit substitutions and the
\* removal of commas is not a complete optionally signed decimal numeral, the
\* result is null.
C14_NullUnlessWholeNumeral ==
    (pc = "returned" /\ ~WholeNumeral(StripUnits(Trim(arg)))) => ret = Null

\* C15: the missing-value markers - the empty string, a lone dash-like
\* character, an N/A spelling, N / A - parse to null.
C15_MarkersAreNull ==
    (/\ pc = "returned"
     /\ \/ Len(Trim(arg)) = 0
        \/ IsLoneDash(Trim(arg))
        \/ IsNASpelling(Trim(arg))
        \/ MatchNA(arg, 1).end = Len(arg) + 1)
        => ret = Null

\* the minus sign U+2212, which no comparison of the function names
C15_Witness == pc = "returned" /\ arg = <<"Minus">> /\ ret = Null

----------------------------------------------------------------------------
(* formatJapaneseNumber, and parseJapaneseNumber on its result             *)

MaxMantissa == 30   \* largest |m| of a generated number m * 10^e

\* amounts of money, from millions to tens of trillions
LargeValues == { Number(m, e) : m \in (-MaxMantissa)..MaxMantissa, e \in 6..11 }

\* ratios and percentages, with up to three decimals
SmallValues == { Number(m, e) : m \in (-MaxMantissa)..MaxMantissa, e \in (-3)..1 }

uChoEn == <<"Cho", "En">>
uOkuEn == <<"Oku", "En">>
uEn == <<"En">>
uBai == <<"Bai">>
uPct == <<"%">>

FormatArgs ==
    { [value |-> v, unit |-> u] : v \in LargeValues, u \in {uChoEn, uOkuEn, uEn, <<>>} }
    \cup { [value |-> v, unit |-> u] : v \in SmallValues, u \in {uBai, uPct, uEn, <<>>} }
    \cup { [value |-> v, unit |-> u] :
             v \in {Null, NaN}, u \in {uChoEn, uOkuEn, uEn, uBai, uPct, <<>>} }

\* one call of formatJapaneseNumber
CallFormatJapaneseNumber ==
    /\ pc = "call"
    /\ ret' = [text |-> formatJapaneseNumber(arg.value, arg.unit), number |-> NaN]
    /\ pc' = "formatted"
    /\ UNCHANGED <<arg, handlerVars>>

\* the formatted text is parsed back
CallParseFormatted ==
    /\ pc = "formatted"
    /\ ret' = [ret EXCEPT !.number = parseJapaneseNumber(ret.text)]
    /\ pc' = "returned"
    /\ UNCHANGED <<arg, handlerVars>>

InitFormat ==
    /\ pc = "call" /\ HandlerIdle
    /\ arg \in FormatArgs
    /\ ret = [text |-> <<>>, number |-> NaN]

SpecFormat == InitFormat /\ [][CallFormatJapaneseNumber \/ CallParseFormatted]_vars

----------------------------------------------------------------------------
(* Properties of the round trip, under SpecFormat                          *)

\* the integer a.m * 10^(a.e - c), for c <= a.e
AtExponent(a, c) == IF a.m = 0 THEN 0 ELSE a.m * Pow10(a.e - c)

\* the exponent of a, or that of tol when a is zero
ExponentOr(a, tol) == IF a.m = 0 THEN tol.e ELSE a.e

\* |a - b| <= tol at the exponent c, which is at most those of a, b and tol
WithinAt(a, b, tol, c) ==
    Abs(AtExponent(a, c) - AtExponent(b, c)) <= AtExponent(tol, c)

\* |a - b| <= tol for numbers a, b and tol
Within(a, b, tol) ==
    /\ a.kind = "number" /\ b.kind = "number"
    /\ WithinAt(a, b, tol, Min({ExponentOr(a, tol), ExponentOr(b, tol), tol.e}))

\* C16: parsing the formatted text recovers the number: to within 2 decimal
\* places of the unit (0.005 units) for 兆円 and 億円, exactly for 倍, % and 円 when
\* the number has at most 2 decimals; null is formatted as - and parses to null.
C16_RoundTrip ==
    pc = "returned" =>
        /\ arg.value = Null => (ret.text = <<"-">> /\ ret.number = Null)
        /\ (arg.value.kind = "number" /\ arg.unit = uChoEn)
              => Within(ret.number, arg.value, Number(5, 9))
        /\ (arg.value.kind = "number" /\ arg.unit = uOkuEn)
              => Within(ret.number, arg.value, Number(5, 5))
        /\ (arg.value.kind = "number" /\ arg.unit \in {uBai, uPct, uEn} /\ arg.value.e >= -2)
              => ret.number = arg.value

----------------------------------------------------------------------------
(* src/app/page.tsx: calculatePSR and its copy calculatePSRFromRow          *)

\* [\d,]
DigitOrComma == Digits \cup {","}

\* \.?\d* matched greedily from q: the position after the match
AfterPoint(s, q) == IF At(s, q) = "." THEN SkipIn(s, q + 1, Digits) ELSE q

\* [\d,]+\.?\d* matched greedily from p: the position after the match
NumeralEnd(s, p) == AfterPoint(s, SkipIn(s, p, DigitOrComma))

\* \s*億円 matches at g
OkuEnAfterSpace(s, g) == At(s, g) = "Oku" /\ At(s, g + 1) = "En"

\* /([\d,]+\.?\d*)\s*億円/ matches at p. The group holds no whitespace and no
\* 億, so it can only end where the greedy match ends.
EVMatchesAt(s, p) ==
    /\ s[p] \in DigitOrComma
    /\ OkuEnAfterSpace(s, SkipIn(s, NumeralEnd(s, p), Whitespace))

\* /([\d,]+\.?\d*)/ matches at p
SalesMatchesAt(s, p) == s[p] \in DigitOrComma

\* Number.parseFloat(match[1].replace(/,/g, "")) for the group starting at p
GroupValue(s, p) == ParseFloat(ReplaceAll("comma", Slice(s, p, NumeralEnd(s, p) - 1)))

\* the enterprise value in 億円
parseEV(str) ==
    IF \A p \in 1..Len(str) : ~EVMatchesAt(str, p) THEN Null
    ELSE GroupValue(str, Min({ p \in 1..Len(str) : EVMatchesAt(str, p) }))

\* x * 0.01
TimesHundredth(x) == IF x.kind = "number" THEN Number(x.m, x.e - 2) ELSE x

\* the sales, read as 百万円 and converted to 億円
parseSales(str) ==
    IF \A p \in 1..Len(str) : ~SalesMatchesAt(str, p) THEN Null
    ELSE TimesHundredth(GroupValue(str, Min({ p \in 1..Len(str) : SalesMatchesAt(str, p) })))

\* the integer nearest to n / d for n >= 0 and d > 0, a tie going to the larger
RoundedQuotient(n, d) == IF 2 * (n % d) >= d THEN (n \div d) + 1 ELSE n \div d

\* (a / b).toFixed(k) for numbers a >= 0 and b > 0
QuotientToFixed(a, b, k) ==
    ToFixed(Number(RoundedQuotient(a.m * Pow10(Max({0, a.e + k - b.e})),
                                   b.m * Pow10(Max({0, b.e - a.e - k}))), -k), k)

NAText == <<"N", "/", "A">>
NaNText == <<"N", "a", "N">>

\* (ev / sales).toFixed(2); sales is not 0 here
PSRToFixed(ev, sales) ==
    IF isNaN(ev) \/ isNaN(sales) THEN NaNText
    ELSE IF ev.m = 0 THEN ToFixed(ev, 2)
    ELSE QuotientToFixed(ev, sales, 2)

\* lines 369-375: the sentinel, or the ratio with 2 decimals
PSRFrom(ev, sales) ==
    IF ev = Null \/ sales = Null \/ (sales.kind = "number" /\ sales.m = 0) THEN NAText
    ELSE PSRToFixed(ev, sales)

\* lines 345-349
PSROfCells(evStr, salesStr) ==
    IF Len(evStr) = 0 \/ Len(salesStr) = 0 THEN NAText
    ELSE PSRFrom(parseEV(evStr), parseSales(salesStr))

\* rr[key] ?? "" and row.key || "": the cell, or "" when the row has none
getProp(cell) == IF cell.type = "undefined" THEN <<>> ELSE cell.str

\* a row has the cells 企業価値 (KigyoKachi) and 売上 (Uriage)
calculatePSR(rr) == PSROfCells(getProp(rr.KigyoKachi), getProp(rr.Uriage))

calculatePSRFromRow(row) == PSROfCells(getProp(row.KigyoKachi), getProp(row.Uriage))

----------------------------------------------------------------------------
(* calculatePSR and calculatePSRFromRow called on one row                  *)

MaxEVParts == 3      \* pieces of a generated 企業価値 cell
MaxSalesParts == 2   \* pieces of a generated 売上 cell

EVParts == { <<"1">>, <<",">>, <<".">>, <<" ">>, <<"Oku", "En">>, <<"Cho", "En">> }

SalesParts == { <<"2">>, <<"0">>, <<",">>, <<".">>, <<"Oku", "En">> }

RECURSIVE Concat(_)
Concat(parts) == IF Len(parts) = 0 THEN <<>> ELSE Head(parts) \o Concat(Tail(parts))

evExample == <<"1", "2", "4", ",", "9", "7", "6", "Oku", "En">>    \* 124,976億円
salesExample == <<"4", ",", "5", "0", "9", ",", "5", "0", "0">>     \* 4,509,500
salesInOku == <<"4", "5", ",", "0", "9", "5", "Oku", "En">>         \* 45,095億円

StringCell(s) == [type |-> "string", str |-> s]

EVCells ==
    { StringCell(Concat(ps)) : ps \in SeqsUpTo(EVParts, MaxEVParts) }
    \cup { StringCell(evExample), StringCell(<<"N", "/", "A">>), StringCell(<<"-">>), NoText }

SalesCells ==
    { StringCell(Concat(ps)) : ps \in SeqsUpTo(SalesParts, MaxSalesParts) }
    \cup { StringCell(salesExample), StringCell(salesInOku),
           StringCell(<<"N", "/", "A">>), StringCell(<<"-">>), NoText }

Rows == { [KigyoKachi |-> ev, Uriage |-> sales] : ev \in EVCells, sales \in SalesCells }

\* the summary of the selected company
CallCalculatePSR ==
    /\ pc = "call"
    /\ ret' = [by |-> "calculatePSR", text |-> calculatePSR(arg)]
    /\ pc' = "returned"
    /\ UNCHANGED <<arg, handlerVars>>

\* the PSR column of the table
CallCalculatePSRFromRow ==
    /\ pc = "call"
    /\ ret' = [by |-> "calculatePSRFromRow", text |-> calculatePSRFromRow(arg)]
    /\ pc' = "returned"
    /\ UNCHANGED <<arg, handlerVars>>

InitPSR ==
    /\ pc = "call" /\ HandlerIdle
    /\ arg \in Rows
    /\ ret = [by |-> "", text |-> <<>>]

SpecPSR == InitPSR /\ [][CallCalculatePSR \/ CallCalculatePSRFromRow]_vars

----------------------------------------------------------------------------
(* Properties of calculatePSR, under SpecPSR                               *)

\* digits, a point and exactly 2 digits
TwoDecimalNumeral(s) ==
    /\ Len(s) >= 4
    /\ s[Len(s) - 2] = "."
    /\ \A i \in 1..Len(s) : i # Len(s) - 2 => s[i] \in Digits

HasDigit(s) == \E i \in 1..Len(s) : s[i] \in Digits

\* some digit stands somewhere before some 億円
DigitBeforeOkuEn(s) ==
    \E i \in 1..Len(s) : s[i] \in Digits /\ \E j \in (i + 1)..Len(s) : OkuEnAfterSpace(s, j)

\* C17: the PSR is N/A when the enterprise value has no number followed by 億円,
\* when the sales hold no number, or when the sales are zero; the example
\* 124,976億円 and 4,509,500 gives 2.77; and every result is either N/A or a
\* numeral with exactly 2 decimals.
C17_NAOrTwoDecimals ==
    pc = "returned" =>
        /\ ret.text = NAText \/ TwoDecimalNumeral(ret.text)
        /\ (~DigitBeforeOkuEn(getProp(arg.KigyoKachi)) \/ ~HasDigit(getProp(arg.Uriage)))
              => ret.text = NAText
        /\ (getProp(arg.KigyoKachi) = evExample /\ getProp(arg.Uriage) = salesExample)
              => ret.text = <<"2", ".", "7", "7">>

NumeralChars == DigitOrComma \cup {"."}

\* the leading numeral of a cell and the unit written after it
NumeralPart(s) == Slice(s, 1, SkipIn(s, 1, NumeralChars) - 1)
UnitPart(s) == Slice(s, SkipIn(s, 1, NumeralChars), Len(s))

NumeralValue(s) == ParseFloat(ReplaceAll("comma", NumeralPart(s)))

\* a numeral followed by one of the given units
AmountWithUnit(s, units) ==
    /\ At(s, 1) \in Digits
    /\ NumeralEnd(s, 1) = Len(NumeralPart(s)) + 1
    /\ UnitPart(s) \in units

\* the amount of a cell in 億円: 兆円 is 10^4 億円 and a bare 売上 figure is in
\* 百万円, 10^-2 億円
InOku(s) ==
    Number(NumeralValue(s).m,
           NumeralValue(s).e + (CASE UnitPart(s) = uChoEn -> 4
                                  [] UnitPart(s) = uOkuEn -> 0
                                  [] OTHER -> -2))

\* C18: for a 企業価値 cell in 億円 or 兆円 and a 売上 cell that is a bare figure or
\* carries 億円, the PSR is N/A or the ratio of the two amounts both taken in 億円.
C18_SameUnitRatio ==
    (/\ pc = "returned"
     /\ AmountWithUnit(getProp(arg.KigyoKachi), {uOkuEn, uChoEn})
     /\ AmountWithUnit(getProp(arg.Uriage), {<<>>, uOkuEn}))
        => \/ ret.text = NAText
           \/ /\ InOku(getProp(arg.Uriage)).m # 0
              /\ ret.text = PSRToFixed(InOku(getProp(arg.KigyoKachi)), InOku(getProp(arg.Uriage)))

----------------------------------------------------------------------------
(* src/unnamed/part_003: fetchHistoricalData, the PSR and PER of each price *)
(* point. An optional number is <<>> when it is undefined or null (the code *)
(* tests both by truthiness or ??) and <<v>> when it is the number v. A date *)
(* is its getFullYear(). A quotient a / b is kept as the fraction of a and b. *)

Absent == <<>>

\* x ?? 0
OrZero(x) == IF x = Absent THEN 0 ELSE x[1]

\* x is a number other than 0
Truthy(x) == x # Absent /\ x[1] # 0

\* lines 96-98: quote.close !== null && quote.close !== undefined
HasClose(q) == q.close # Absent

\* the price point with high, low, open and volume taken from the close
pricePointOf_CloseOnly(q) ==
    [date |-> q.date, close |-> q.close[1],
     high |-> q.close[1], low |-> q.close[1], open |-> q.close[1], volume |-> 0]

\* lines 99-105: the price point of a chart quote
pricePointOf(q) ==
    [date |-> q.date, close |-> q.close[1],
     high |-> OrZero(q.high), low |-> OrZero(q.low),
     open |-> OrZero(q.open), volume |-> OrZero(q.volume)]

\* lines 93-105: (chartResult.quotes || []).filter(...).map(...)
RECURSIVE priceHistoryOf(_)
priceHistoryOf(quotes) ==
    IF Len(quotes) = 0 THEN <<>>
    ELSE (IF HasClose(Head(quotes)) THEN <<pricePointOf(Head(quotes))>> ELSE <<>>)
            \o priceHistoryOf(Tail(quotes))

\* lines 162-168: the sum of the first 4 quarterly net incomes
ttmNetIncome(quarterlyStatements) ==
    IF Len(quarterlyStatements) >= 4
    THEN << OrZero(quarterlyStatements[1].netIncome) + OrZero(quarterlyStatements[2].netIncome)
            + OrZero(quarterlyStatements[3].netIncome) + OrZero(quarterlyStatements[4].netIncome) >>
    ELSE Absent

\* new Map()
EmptyMap == [y \in {} |-> 0]

\* map.set(key, v)
MapSet(map, key, v) == [y \in DOMAIN map \cup {key} |-> IF y = key THEN v ELSE map[y]]

\* map.get(key) ?? null
MapGet(map, key) == IF key \in DOMAIN map THEN <<map[key]>> ELSE Absent

\* lines 180-187: fiscal year -> net income
RECURSIVE SetNetIncomes(_, _)
SetNetIncomes(map, statements) ==
    IF Len(statements) = 0 THEN map
    ELSE SetNetIncomes(
            IF Head(statements).endDate # Absent /\ Head(statements).netIncome # Absent
            THEN MapSet(map, Head(statements).endDate[1], Head(statements).netIncome[1])
            ELSE map,
            Tail(statements))

annualNetIncomeMap(annualStatements) == SetNetIncomes(EmptyMap, annualStatements)

\* lines 189-196: fiscal year -> revenue
RECURSIVE SetRevenues(_, _)
SetRevenues(map, statements) ==
    IF Len(statements) = 0 THEN map
    ELSE SetRevenues(
            IF Head(statements).endDate # Absent /\ Head(statements).totalRevenue # Absent
            THEN MapSet(map, Head(statements).endDate[1], Head(statements).totalRevenue[1])
            ELSE map,
            Tail(statements))

annualRevenueMap(annualStatements) == SetRevenues(EmptyMap, annualStatements)

\* new Date().getFullYear() at the time of the call
CurrentYear == 2026

\* lines 198-201
latestFiscalYear(annualStatements) ==
    IF Len(annualStatements) > 0 /\ annualStatements[1].endDate # Absent
    THEN annualStatements[1].endDate[1]
    ELSE CurrentYear

\* the lookup with year + 1 replaced by year
FiscalYearOf_SameYear(year) == year

\* fiscalYear = year + 1
FiscalYearOf(year) == year + 1

\* lines 205-215
getNetIncomeForDate(year, quote) ==
    IF year >= latestFiscalYear(quote.annualStatements)
    THEN ttmNetIncome(quote.quarterlyStatements)
    ELSE MapGet(annualNetIncomeMap(quote.annualStatements), FiscalYearOf(year))

\* lines 218-225
getRevenueForDate(year, quote) ==
    IF year >= latestFiscalYear(quote.annualStatements)
    THEN quote.revenue
    ELSE MapGet(annualRevenueMap(quote.annualStatements), FiscalYearOf(year))

\* lines 233-236
marketCapOf(point, sharesOutstanding) ==
    IF Truthy(sharesOutstanding) /\ point.close > 0
    THEN <<point.close * sharesOutstanding[1]>>
    ELSE Absent

\* the test with "> 0" left out
Usable_AnySign(x) == Truthy(x)

\* the denominator passes: it is a number, not 0, and positive
Usable(x) == Truthy(x) /\ x[1] > 0

\* lines 242-250: marketCap / denominator, or undefined
metricOf(marketCap, denominator) ==
    IF Truthy(marketCap) /\ Usable(denominator)
    THEN <<[num |-> marketCap[1], den |-> denominator[1]]>>
    ELSE Absent

\* date.toISOString(): the text of the date
toISOString(date) == [iso |-> date]

\* lines 252-262: the output point
historyPointOf(point, marketCap, netIncomeForPeriod, revenueForPeriod) ==
    [date |-> toISOString(point.date), close |-> point.close,
     high |-> point.high, low |-> point.low, open |-> point.open, volume |-> point.volume,
     psr |-> metricOf(marketCap, revenueForPeriod),
     per |-> metricOf(marketCap, netIncomeForPeriod),
     marketCap |-> marketCap]

\* lines 228-263: priceHistory.map
historyOf(priceHistory, quote) ==
    [i \in 1..Len(priceHistory) |->
        historyPointOf(priceHistory[i],
                       marketCapOf(priceHistory[i], quote.sharesOutstanding),
                       getNetIncomeForDate(priceHistory[i].date, quote),
                       getRevenueForDate(priceHistory[i].date, quote))]

----------------------------------------------------------------------------
(* fetchHistoricalData for one symbol                                       *)

MaxPoints == 1     \* price points of a chart
MaxAnnual == 2     \* annual statements of a summary

PointYears == 2022..2026

PricePoints ==
    { [date |-> y, close |-> c, high |-> c, low |-> c, open |-> c, volume |-> 0] :
        y \in PointYears, c \in {0, 2} }

\* (netIncome, totalRevenue) of an annual statement: a profit, a loss, nothing
\* reported, and zeros
AnnualFigures ==
    { [netIncome |-> <<4>>, totalRevenue |-> <<6>>],
      [netIncome |-> <<-5>>, totalRevenue |-> <<6>>],
      [netIncome |-> Absent, totalRevenue |-> Absent],
      [netIncome |-> <<0>>, totalRevenue |-> <<0>>] }

StatementYears == 2023..2025

Statement(y, f) == [endDate |-> <<y>>, netIncome |-> f.netIncome, totalRevenue |-> f.totalRevenue]

\* the statements of the summary, the most recent first, as the service lists them
AnnualLists ==
    { ss \in SeqsUpTo({ Statement(y, f) : y \in StatementYears, f \in AnnualFigures }, MaxAnnual) :
        \A i \in 1..(Len(ss) - 1) : ss[i].endDate[1] > ss[i + 1].endDate[1] }

Quarter(n) == [netIncome |-> n]

QuarterlyLists ==
    { <<>>,
      <<Quarter(<<1>>), Quarter(<<1>>), Quarter(<<1>>)>>,
      <<Quarter(<<1>>), Quarter(<<2>>), Quarter(<<1>>), Quarter(<<1>>)>>,
      <<Quarter(<<1>>), Quarter(Absent), Quarter(<<1>>), Quarter(<<1>>)>>,
      <<Quarter(<<1>>), Quarter(<<-4>>), Quarter(<<1>>), Quarter(<<1>>)>>,
      <<Quarter(<<2>>), Quarter(<<2>>), Quarter(<<2>>), Quarter(<<2>>), Quarter(<<7>>)>> }

Quotes ==
    { [sharesOutstanding |-> s, revenue |-> r, annualStatements |-> a, quarterlyStatements |-> q] :
        s \in {Absent, <<0>>, <<3>>}, r \in {Absent, <<0>>, <<7>>},
        a \in AnnualLists, q \in QuarterlyLists }

\* one symbol of fetchHistoricalData: the chart, the summary, the history
CallFetchHistoricalData ==
    /\ pc = "call"
    /\ ret' = historyOf(arg.priceHistory, arg.quote)
    /\ pc' = "returned"
    /\ UNCHANGED <<arg, handlerVars>>

InitHistory ==
    /\ pc = "call" /\ HandlerIdle
    /\ arg \in { [priceHistory |-> ps, quote |-> q] :
                    ps \in SeqsUpTo(PricePoints, MaxPoints), q \in Quotes }
    /\ ret = <<>>

SpecHistory == InitHistory /\ [][CallFetchHistoricalData]_vars

----------------------------------------------------------------------------
(* Properties of fetchHistoricalData, under SpecHistory                    *)

\* a figure is known: it is reported, and it is not the 0 that stands for no figure
Known(x) == x # Absent /\ x[1] # 0

KnownPositive(x) == x # Absent /\ x[1] > 0

\* the fraction f is a / b
IsRatio(f, a, b) == f.num * b = a * f.den

\* the metric is defined exactly when the market capitalisation is defined and
\* the denominator is known and positive, and then it is their quotient
MetricAsClaimed(metric, marketCap, denominator) ==
    /\ metric # Absent <=> (marketCap # Absent /\ KnownPositive(denominator))
    /\ metric # Absent =>
          /\ IsRatio(metric[1], marketCap[1], denominator[1])
          /\ metric[1].num > 0 /\ metric[1].den > 0

PointAsClaimed(point, out, quote) ==
    /\ out.marketCap = IF point.close > 0 /\ Known(quote.sharesOutstanding)
                       THEN <<point.close * quote.sharesOutstanding[1]>>
                       ELSE Absent
    /\ MetricAsClaimed(out.psr, out.marketCap, getRevenueForDate(point.date, quote))
    /\ MetricAsClaimed(out.per, out.marketCap, getNetIncomeForDate(point.date, quote))

\* C19: in every output point, marketCap is close x sharesOutstanding when
\* close > 0 and the share count is known, else undefined; psr (per) is defined
\* iff marketCap is defined and the revenue (net income) of the period is known
\* and positive, and is then marketCap divided by it; no metric is zero or
\* negative, or has a non-positive denominator.
C19_PointMetrics ==
    pc = "returned" =>
        \A i \in 1..Len(ret) : PointAsClaimed(arg.priceHistory[i], ret[i], arg.quote)

\* a loss-making period: the PSR is defined and the PER is not
C19_Witness ==
    /\ pc = "returned"
    /\ \E i \in 1..Len(ret) :
          /\ ret[i].psr # Absent /\ ret[i].per = Absent
          /\ getNetIncomeForDate(arg.priceHistory[i].date, arg.quote) # Absent
          /\ getNetIncomeForDate(arg.priceHistory[i].date, arg.quote)[1] < 0

\* the most recent year among the annual statements
LatestStatementYear(statements) ==
    Max({ statements[i].endDate[1] : i \in 1..Len(statements) })

\* the sum of the net incomes of the first n quarters, one not reported counting 0
RECURSIVE QuarterSum(_, _)
QuarterSum(quarters, n) ==
    IF n = 0 THEN 0 ELSE QuarterSum(quarters, n - 1) + OrZero(quarters[n].netIncome)

TrailingTwelveMonths(quarters) ==
    IF Len(quarters) < 4 THEN Absent ELSE <<QuarterSum(quarters, 4)>>

\* the annual statements of fiscal year fy
StatementsOf(statements, fy) ==
    { i \in 1..Len(statements) : statements[i].endDate[1] = fy }

\* the net income to use for a point of calendar year y
NetIncomePolicy(y, quote) ==
    IF y >= LatestStatementYear(quote.annualStatements)
    THEN TrailingTwelveMonths(quote.quarterlyStatements)
    ELSE IF StatementsOf(quote.annualStatements, y + 1) = {} THEN Absent
    ELSE quote.annualStatements[CHOOSE i \in StatementsOf(quote.annualStatements, y + 1) : TRUE].netIncome

\* the revenue to use for a point of calendar year y
RevenuePolicy(y, quote) ==
    IF y >= LatestStatementYear(quote.annualStatements) THEN quote.revenue
    ELSE IF StatementsOf(quote.annualStatements, y + 1) = {} THEN Absent
    ELSE quote.annualStatements[CHOOSE i \in StatementsOf(quote.annualStatements, y + 1) : TRUE].totalRevenue

\* the metric is computed from the figure of the policy, or is undefined
FromFigure(metric, marketCap, figure) ==
    IF marketCap # Absent /\ KnownPositive(figure)
    THEN metric # Absent /\ IsRatio(metric[1], marketCap[1], figure[1])
    ELSE metric = Absent

----------------------------------------------------------------------------
(* src/lib/metrics.ts: calculateAverages. The metrics of a company are a    *)
(* function from its metric keys to null, NaN or a whole number; a key the  *)
(* company does not have reads as undefined.                                *)

\* the keys of every company: allKeys
allKeysOf(companies) == UNION { DOMAIN companies[i] : i \in 1..Len(companies) }

\* line 120-121: company.metrics[key] passes v !== null && !isNaN(v); undefined
\* does not, isNaN(undefined) being true
ValidValue(metrics, key) == key \in DOMAIN metrics /\ metrics[key].kind = "number"

\* the whole number m * 10^e, e >= 0
WholeValue(x) == x.m * Pow10(x.e)

\* values.reduce((acc, val) => acc + val, 0) over the valid values of companies 1..n
RECURSIVE SumOfValid(_, _, _)
SumOfValid(companies, key, n) ==
    IF n = 0 THEN 0
    ELSE SumOfValid(companies, key, n - 1)
            + (IF ValidValue(companies[n], key) THEN WholeValue(companies[n][key]) ELSE 0)

\* values.length
CountOfValid(companies, key) ==
    Cardinality({ i \in 1..Len(companies) : ValidValue(companies[i], key) })

\* sum / values.length, kept as a fraction
Quotient(a, b) == [kind |-> "quotient", num |-> a, den |-> b]

\* lines 119-131: the average of one key
averageOf(companies, key) ==
    IF CountOfValid(companies, key) > 0
    THEN Quotient(SumOfValid(companies, key, Len(companies)), CountOfValid(companies, key))
    ELSE Null

\* lines 97-136; {} for no company is the function with no key
calculateAverages(companies) ==
    [key \in allKeysOf(companies) |-> averageOf(companies, key)]

----------------------------------------------------------------------------
(* calculateAverages called on its own                                      *)

MaxCompanies == 3   \* companies of one call

MetricKeys == {"PER", "PSR"}

MetricValues == {Null, NaN, Number(2, 0), Number(5, 0)}

CompanyMetricsSet == UNION { [ks -> MetricValues] : ks \in SUBSET MetricKeys }

CallCalculateAverages ==
    /\ pc = "call"
    /\ ret' = calculateAverages(arg)
    /\ pc' = "returned"
    /\ UNCHANGED <<arg, handlerVars>>

InitAverages ==
    /\ pc = "call" /\ HandlerIdle
    /\ arg \in SeqsUpTo(CompanyMetricsSet, MaxCompanies)
    /\ ret = <<>>

SpecAverages == InitAverages /\ [][CallCalculateAverages]_vars

----------------------------------------------------------------------------
(* Properties of calculateAverages, under SpecAverages                      *)

\* the companies that contribute a number for the key
Contributors(companies, key) ==
    { i \in 1..Len(companies) :
        key \in DOMAIN companies[i] /\ companies[i][key] \notin {Null, NaN} }

RECURSIVE SumOver(_, _, _)
SumOver(companies, key, I) ==
    IF I = {} THEN 0
    ELSE WholeValue(companies[Max(I)][key]) + SumOver(companies, key, I \ {Max(I)})

\* C21: the mean of a metric key is the arithmetic mean of the non-null,
\* non-NaN values, and is null unless at least 2 companies contribute one:
\* exactly one value gives null, never that value.
C21_MeanNeedsTwoValues ==
    pc = "returned" =>
        \A key \in DOMAIN ret :
            IF Cardinality(Contributors(arg, key)) >= 2
            THEN /\ ret[key] # Null
                 /\ ret[key].num * Cardinality(Contributors(arg, key))
                       = SumOver(arg, key, Contributors(arg, key)) * ret[key].den
            ELSE ret[key] = Null

----------------------------------------------------------------------------
(* fetchHistoricalData for one symbol, from the quotes of the chart         *)

MaxQuotes == 3     \* quotes of a chart

ChartYears == 2023..2025

\* high, low, open and volume of a quote: all reported, none, only the high
QuoteExtras ==
    { [high |-> <<3>>, low |-> <<1>>, open |-> <<2>>, volume |-> <<9>>],
      [high |-> Absent, low |-> Absent, open |-> Absent, volume |-> Absent],
      [high |-> <<3>>, low |-> Absent, open |-> Absent, volume |-> Absent] }

ChartQuote(y, c, x) ==
    [date |-> y, close |-> c, high |-> x.high, low |-> x.low, open |-> x.open, volume |-> x.volume]

\* the quotes of a chart, in chronological order
ChartQuoteLists ==
    { qs \in SeqsUpTo({ ChartQuote(y, c, x) :
                          y \in ChartYears, c \in {Absent, <<0>>, <<2>>}, x \in QuoteExtras },
                      MaxQuotes) :
        \A i \in 1..(Len(qs) - 1) : qs[i].date <= qs[i + 1].date }

profitThenLoss ==
    << Statement(2025, [netIncome |-> <<4>>, totalRevenue |-> <<6>>]),
       Statement(2024, [netIncome |-> <<-5>>, totalRevenue |-> <<6>>]) >>

fourQuarters == <<Quarter(<<1>>), Quarter(<<2>>), Quarter(<<1>>), Quarter(<<1>>)>>

Summary(s, r, a, q) ==
    [sharesOutstanding |-> s, revenue |-> r, annualStatements |-> a, quarterlyStatements |-> q]

ChartSummaries ==
    { Summary(<<3>>, <<7>>, profitThenLoss, fourQuarters),
      Summary(<<3>>, Absent, profitThenLoss, <<>>),
      Summary(Absent, <<7>>, profitThenLoss, fourQuarters),
      Summary(<<3>>, <<7>>, <<>>, fourQuarters) }

\* one symbol: the chart is filtered and converted, then the history is computed
CallFetchChart ==
    /\ pc = "call"
    /\ ret' = historyOf(priceHistoryOf(arg.quotes), arg.quote)
    /\ pc' = "returned"
    /\ UNCHANGED <<arg, handlerVars>>

InitChart ==
    /\ pc = "call" /\ HandlerIdle
    /\ arg \in { [quotes |-> qs, quote |-> s] : qs \in ChartQuoteLists, s \in ChartSummaries }
    /\ ret = <<>>

SpecChart == InitChart /\ [][CallFetchChart]_vars

----------------------------------------------------------------------------
(* Properties of the history of a chart, under SpecChart                    *)

\* the quotes with a close
WithClose(quotes) == { j \in 1..Len(quotes) : quotes[j].close # Absent }

\* the k-th of them
NthWithClose(quotes, k) ==
    CHOOSE j \in WithClose(quotes) : Cardinality({ i \in WithClose(quotes) : i <= j }) = k

\* the number, or 0 for none
ReportedOrZero(x) == IF x = Absent THEN 0 ELSE x[1]

\* the output point carries the date and the close of the quote, and its high,
\* low, open and volume where the quote reports them, 0 where it does not
CarriesQuote(out, q) ==
    /\ out.date = [iso |-> q.date]
    /\ <<out.close>> = q.close
    /\ out.high = ReportedOrZero(q.high) /\ out.low = ReportedOrZero(q.low)
    /\ out.open = ReportedOrZero(q.open) /\ out.volume = ReportedOrZero(q.volume)

\* the output point carries all six fields of the quote as they are
CarriesQuoteUnchanged(out, q) ==
    /\ out.date = [iso |-> q.date]
    /\ <<out.close>> = q.close
    /\ <<out.high>> = q.high /\ <<out.low>> = q.low
    /\ <<out.open>> = q.open /\ <<out.volume>> = q.volume

\* C22 (amended): the history has exactly one point per quote with a close, in
\* the order of the quotes, with the date and close of the quote and with its
\* high, low, open and volume, a missing one of these four being 0; this holds
\* whether or not the PER and PSR of the points are defined.
C22_OnePointPerQuote ==
    pc = "returned" =>
        /\ Len(ret) = Cardinality(WithClose(arg.quotes))
        /\ \A k \in 1..Len(ret) : CarriesQuote(ret[k], arg.quotes[NthWithClose(arg.quotes, k)])

\* C22 as stated: one point per quote with a close, in order, with unchanged
\* date, close, high, low, open and volume.
C22_PointsUnchanged ==
    pc = "returned" =>
        /\ Len(ret) = Cardinality(WithClose(arg.quotes))
        /\ \A k \in 1..Len(ret) :
              CarriesQuoteUnchanged(ret[k], arg.quotes[NthWithClose(arg.quotes, k)])

\* a quote without close is dropped, and of the two points kept the first has
\* no PER (a loss-making year) while the second has one
C22_Witness ==
    /\ pc = "returned"
    /\ Len(arg.quotes) = 3 /\ Len(ret) = 2
    /\ arg.quotes[2].close = Absent
    /\ ret[1].per = Absent /\ ret[1].psr # Absent
    /\ ret[2].per # Absent
    /\ arg.quotes[3].high = Absent /\ ret[2].high = 0

----------------------------------------------------------------------------
(* src/app/api/historical/route.ts POST and src/unnamed/part_003            *)
(* fetchHistoricalData: the symbols of a request                            *)

dotT == <<".", "T">>

\* symbol.endsWith(".T")
EndsWithDotT(symbol) == Len(symbol) >= 2 /\ StartsAt(symbol, dotT, Len(symbol) - 1)

\* /^\d+$/.test(symbol)
AllDigits(symbol) == Len(symbol) >= 1 /\ \A i \in 1..Len(symbol) : symbol[i] \in Digits

\* route.ts lines 35-41, part_003 lines 42-47
yahooSymbolOf(symbol) ==
    IF EndsWithDotT(symbol) THEN symbol
    ELSE IF AllDigits(symbol) THEN symbol \o dotT
    ELSE symbol

\* s with the two characters at p removed
WithoutTwoAt(s, p) == Slice(s, 1, p - 1) \o Slice(s, p + 2, Len(s))

\* symbol.replace(".T", ""): the first occurrence is removed
originalSymbolOf(symbol) ==
    IF ~Includes(symbol, dotT) THEN symbol
    ELSE WithoutTwoAt(symbol, Min({ p \in 1..Len(symbol) : StartsAt(symbol, dotT, p) }))

\* results[key] = entry
WithResult(results, key, entry) ==
    [x \in DOMAIN results \cup {key} |-> IF x = key THEN entry ELSE results[x]]

\* the entry of a symbol whose lookups succeeded
ResultEntry(symbol) ==
    [symbol |-> originalSymbolOf(symbol), yahooSymbol |-> symbol, error |-> FALSE]

\* route.ts lines 110-113: the entry of a symbol whose lookup threw
ErrorEntry(symbol) ==
    [symbol |-> originalSymbolOf(symbol), yahooSymbol |-> <<>>, error |-> TRUE]

NoResults == [x \in {} |-> ResultEntry(<<>>)]

\* the symbol the loop is at
CurrentSymbol == yahooSymbolOf(arg.symbols[ret.done + 1])

\* symbols.length === 0: 400 in the route, an Error thrown in the action
RejectNoSymbols ==
    /\ pc = "call"
    /\ Len(arg.symbols) = 0
    /\ pc' = "rejected"
    /\ UNCHANGED <<arg, ret, handlerVars>>

\* one turn of the loop whose lookups succeed
LookupSucceeds ==
    /\ pc = "call"
    /\ ret.done < Len(arg.symbols)
    /\ CurrentSymbol \notin arg.failing
    /\ ret' = [done |-> ret.done + 1,
               results |-> WithResult(ret.results, originalSymbolOf(CurrentSymbol),
                                      ResultEntry(CurrentSymbol))]
    /\ UNCHANGED <<pc, arg, handlerVars>>

\* one turn of the loop whose lookup throws: the route stores the error, the
\* action only logs it
LookupFails ==
    /\ pc = "call"
    /\ ret.done < Len(arg.symbols)
    /\ CurrentSymbol \in arg.failing
    /\ ret' = [done |-> ret.done + 1,
               results |-> IF arg.handler = "route"
                           THEN WithResult(ret.results, originalSymbolOf(CurrentSymbol),
                                           ErrorEntry(CurrentSymbol))
                           ELSE ret.results]
    /\ UNCHANGED <<pc, arg, handlerVars>>

\* return { success: true, ..., data: results }
ReturnResults ==
    /\ pc = "call"
    /\ Len(arg.symbols) > 0
    /\ ret.done = Len(arg.symbols)
    /\ pc' = "returned"
    /\ UNCHANGED <<arg, ret, handlerVars>>

MaxSymbolLen == 3   \* characters of a generated symbol
MaxSymbols == 2     \* symbols of a request

SymbolChars == {"7", "A", ".", "T"}

LongSymbols ==
    { <<"7", "2", "0", "3">>, <<"7", "2", "0", "3", ".", "T">>,
      <<"R", "Y", ".", "T", "O">>, <<"A", "A", "P", "L">> }

SymbolStrings == SeqsUpTo(SymbolChars, MaxSymbolLen) \cup LongSymbols

\* the lookups that throw: none, those of the first symbol, those of the last
FailingSets(symbols) ==
    {{}} \cup { {yahooSymbolOf(symbols[i])} : i \in {1, Len(symbols)} \cap (1..Len(symbols)) }

InitSymbols ==
    /\ pc = "call" /\ HandlerIdle
    /\ \E h \in {"route", "action"}, ss \in SeqsUpTo(SymbolStrings, MaxSymbols) :
          \E f \in FailingSets(ss) :
              arg = [handler |-> h, symbols |-> ss, failing |-> f]
    /\ ret = [done |-> 0, results |-> NoResults]

SpecSymbols ==
    InitSymbols /\ [][RejectNoSymbols \/ LookupSucceeds \/ LookupFails \/ ReturnResults]_vars

----------------------------------------------------------------------------
(* Properties of the symbols of a request, under SpecSymbols                *)

\* the symbol to look up for a requested identifier
LookupSymbol(id) == IF AllDigits(id) THEN id \o dotT ELSE id

\* the identifier with only a trailing .T removed
WithoutMarketSuffix(id) == IF EndsWithDotT(id) THEN Slice(id, 1, Len(id) - 2) ELSE id

\* the identifier has an entry under its key: the result of its own lookup, or
\* (in the route) its error
StoredAsClaimed(id) ==
    IF LookupSymbol(id) \in arg.failing
    THEN arg.handler = "route" =>
            /\ WithoutMarketSuffix(id) \in DOMAIN ret.results
            /\ ret.results[WithoutMarketSuffix(id)].error
    ELSE /\ WithoutMarketSuffix(id) \in DOMAIN ret.results
         /\ ret.results[WithoutMarketSuffix(id)]
               = [symbol |-> WithoutMarketSuffix(id), yahooSymbol |-> LookupSymbol(id),
                  error |-> FALSE]

\* C25: every requested identifier is looked up with .T appended when it is
\* purely numeric and unchanged otherwise, and its result or error is stored
\* under the identifier with only a trailing .T removed, whatever happens to
\* the other identifiers.
C25_StoredUnderIdentifier ==
    pc = "returned" => \A k \in 1..Len(arg.symbols) : StoredAsClaimed(arg.symbols[k])

----------------------------------------------------------------------------
(* src/app/page.tsx handleParse and src/unnamed/part_006 extractMetrics:    *)
(* the row of a parsed table used for a company. A row is its code and its  *)
(* name, each <<>> when the row has none; the result is the index of the    *)
(* row used, 0 for none.                                                    *)

\* String(r.code ?? ""), String(r.name ?? "")
StringOrEmpty(x) == IF x = Absent THEN "" ELSE x[1]

\* page.tsx lines 334-336: the predicate of find
MatchesCodeOrName(r, companyCode, companyName) ==
    \/ StringOrEmpty(r.code) = companyCode
    \/ StringOrEmpty(r.name) = companyName

\* the first index of I, 0 when there is none
FirstOf(I) == IF I = {} THEN 0 ELSE Min(I)

\* page.tsx lines 333-337: data.rows.find(...)
handleParseRow(rows, companyCode, companyName) ==
    FirstOf({ i \in 1..Len(rows) : MatchesCodeOrName(rows[i], companyCode, companyName) })

\* part_006 lines 383-398: rowObj.code === code
MatchesCode(r, code) == r.code = <<code>>

\* part_006 lines 380-407: the row matching the code, else the first row
extractMetricsRow(rows, code) ==
    IF Len(rows) = 0 THEN 0
    ELSE IF \E i \in 1..Len(rows) : MatchesCode(rows[i], code)
    THEN FirstOf({ i \in 1..Len(rows) : MatchesCode(rows[i], code) })
    ELSE 1

MaxRows == 3   \* rows of a parsed table

TableRows ==
    { [code |-> c, name |-> n] : c \in {Absent, <<"7203">>, <<"6758">>},
                                 n \in {Absent, <<"Toyota">>, <<"Sony">>} }

\* the summary of handleParse
CallHandleParse ==
    /\ pc = "call"
    /\ ret' = [by |-> "handleParse",
               row |-> handleParseRow(arg.rows, arg.companyCode, arg.companyName)]
    /\ pc' = "returned"
    /\ UNCHANGED <<arg, handlerVars>>

\* the metrics of extractMetrics
CallExtractMetrics ==
    /\ pc = "call"
    /\ ret' = [by |-> "extractMetrics", row |-> extractMetricsRow(arg.rows, arg.companyCode)]
    /\ pc' = "returned"
    /\ UNCHANGED <<arg, handlerVars>>

InitRow ==
    /\ pc = "call" /\ HandlerIdle
    /\ arg \in { [rows |-> rs, companyCode |-> "7203", companyName |-> "Toyota"] :
                    rs \in SeqsUpTo(TableRows, MaxRows) }
    /\ ret = [by |-> "", row |-> 0]

SpecRow == InitRow /\ [][CallHandleParse \/ CallExtractMetrics]_vars

----------------------------------------------------------------------------
(* Properties of the row selection, under SpecRow                           *)

\* the rows whose code is the company's
RowsWithCode == { i \in 1..Len(arg.rows) : arg.rows[i].code = <<arg.companyCode>> }

\* C24: the row used is a row whose code is the company code whenever there is
\* one; a row matching by name, or the first row, is used only when no row
\* matches by code.
C24_CodeMatchFirst ==
    pc = "returned" => (RowsWithCode # {} => ret.row \in RowsWithCode)

\* the same for the metrics of extractMetrics alone
ExtractMetricsUsesCodeRow ==
    (pc = "returned" /\ ret.by = "extractMetrics") =>
        (RowsWithCode # {} => ret.row \in RowsWithCode)

----------------------------------------------------------------------------
(* tokenizeRow and heuristicParse on two spellings of one data line       *)
(*                                                                         *)
(* A data line is a list of cells separated by one space.  A cell is a     *)
(* plain word, or a numeral followed by a unit; the tight spelling writes  *)
(* the unit right after the numeral, the spaced spelling puts a run of     *)
(* whitespace between them.                                                *)

MaxCells == 2       \* cells of a generated data line

nGrouped == <<"4", ",", "8", "5", "5">>
nNegative == <<"-", "1", ".", "5">>
wNotAvailable == <<"N", "/", "A">>

CellNumerals == {nGrouped, nNegative}
CellUnits == {uChoEn, uOkuEn, uEn, uBai, uPct}
CellGaps == { <<" ">>, <<"Tab">>, <<" ", "IdSp">> }
PlainWords == {wCode, wName, wNotAvailable}

Cells ==
    [numeral : CellNumerals, word : CellUnits] \cup [numeral : {<<>>}, word : PlainWords]

TightCell(cell) == cell.numeral \o cell.word
SpacedCell(cell, gap) ==
    IF cell.numeral = <<>> THEN cell.word ELSE cell.numeral \o gap \o cell.word

TightLine(cells) == Join([i \in 1..Len(cells) |-> TightCell(cells[i])], <<" ">>)
SpacedLine(cells, gap) ==
    Join([i \in 1..Len(cells) |-> SpacedCell(cells[i], gap)], <<" ">>)

WithHeader(line) == HeaderLineA \o <<"LF">> \o line

\* tokenizeRow called on the two spellings of the line
CallTokenizeRow ==
    /\ pc = "call"
    /\ ret' = [ret EXCEPT !.tokens =
                  [tight |-> tokenizeRow(TightLine(arg.cells)),
                   spaced |-> tokenizeRow(SpacedLine(arg.cells, arg.gap))]]
    /\ pc' = "tokenized"
    /\ UNCHANGED <<arg, handlerVars>>

\* heuristicParse called on the two spellings of the line under one header
CallHeuristicParseOnSpellings ==
    /\ pc = "tokenized"
    /\ ret' = [ret EXCEPT !.parsed =
                  [tight |-> heuristicParse(WithHeader(TightLine(arg.cells))),
                   spaced |-> heuristicParse(WithHeader(SpacedLine(arg.cells, arg.gap)))]]
    /\ pc' = "returned"
    /\ UNCHANGED <<arg, handlerVars>>

InitSpacing ==
    /\ pc = "call" /\ HandlerIdle
    /\ arg \in [cells : SeqsUpTo(Cells, MaxCells) \ {<<>>}, gap : CellGaps]
    /\ ret = [tokens |-> <<>>, parsed |-> <<>>]

SpecSpacing == InitSpacing /\ [][CallTokenizeRow \/ CallHeuristicParseOnSpellings]_vars

\* C26: the two spellings of a data line, with and without whitespace
\* between each numeral and its unit, give the same tokens from tokenizeRow:
\* one token per cell, the numeral joined to its unit, which
\* isNumericLikeToken accepts; and heuristicParse returns the same table for
\* both spellings
C26_SpacingInsensitive ==
    /\ pc \in {"tokenized", "returned"} =>
          /\ ret.tokens.spaced = ret.tokens.tight
          /\ ret.tokens.tight = [i \in 1..Len(arg.cells) |-> TightCell(arg.cells[i])]
          /\ \A i \in 1..Len(arg.cells) :
                arg.cells[i].numeral # <<>> => isNumericLikeToken(ret.tokens.tight[i])
    /\ pc = "returned" => ret.parsed.spaced = ret.parsed.tight

\* 'To 4,855 <tab> 億円' parsed into one row
C26_Witness ==
    /\ pc = "returned"
    /\ arg.cells = << [numeral |-> <<>>, word |-> wName],
                      [numeral |-> nGrouped, word |-> uOkuEn] >>
    /\ arg.gap = <<"Tab">>
    /\ ret.tokens.spaced = << wName, nGrouped \o uOkuEn >>
    /\ Len(ret.parsed.spaced.rows) = 1

----------------------------------------------------------------------------
(* Convex tables                                                           *)
(*                                                                         *)
(* A table is the list of its documents in creation order; ctx.db.insert   *)
(* gives the document a fresh _id, and a mutation that throws commits      *)
(* nothing.                                                                *)

MaxDocs == 4        \* documents inserted in one behaviour

NoDoc == [_id |-> 0]

\* ctx.db.get(id) on one table
DbGet(table, id) ==
    IF \E i \in 1..Len(table) : table[i]._id = id
    THEN table[CHOOSE i \in 1..Len(table) : table[i]._id = id]
    ELSE NoDoc

\* ctx.db.delete(id) on one table
DbDelete(table, id) == SelectSeq(table, LAMBDA d : d._id # id)

\* .withIndex("by_tab", (q) => q.eq("tabId", tabId)).collect()
ByTab(table, tabId) == SelectSeq(table, LAMBDA d : d.tabId = tabId)

\* .withIndex("by_case", (q) => q.eq("caseId", caseId)).collect()
ByCase(table, caseId) == SelectSeq(table, LAMBDA d : d.caseId = caseId)

Returned(by, value) == [by |-> by, thrown |-> FALSE, value |-> value]
Thrown(by, message) == [by |-> by, thrown |-> TRUE, value |-> message]

----------------------------------------------------------------------------
(* cases.ts: create, duplicate, saveSnapshot, deleteCase                   *)

TabIds == {"tabA", "tabB"}
CompanySets == { <<>>, <<"7203">> }
DocIds == 1..MaxDocs

create(tabId, companySet) ==
    /\ db.nextId <= MaxDocs
    /\ db' = [db EXCEPT !.cases = Append(@, [_id |-> db.nextId, tabId |-> tabId,
                                             companySet |-> companySet]),
                        !.nextId = @ + 1]
    /\ arg' = [tabId |-> tabId, companySet |-> companySet]
    /\ ret' = Returned("create", db.nextId)
    /\ UNCHANGED <<pc, now, postVars>>

duplicate(caseId) ==
    /\ db.nextId <= MaxDocs
    /\ arg' = [caseId |-> caseId]
    /\ IF DbGet(db.cases, caseId) = NoDoc
       THEN /\ ret' = Thrown("duplicate", "Case not found")
            /\ UNCHANGED db
       ELSE /\ db' = [db EXCEPT !.cases = Append(@, [DbGet(db.cases, caseId)
                                                      EXCEPT !._id = db.nextId]),
                                !.nextId = @ + 1]
            /\ ret' = Returned("duplicate", db.nextId)
    /\ UNCHANGED <<pc, now, postVars>>

saveSnapshot(caseId) ==
    /\ db.nextId <= MaxDocs
    /\ db' = [db EXCEPT !.caseSnapshots = Append(@, [_id |-> db.nextId, caseId |-> caseId]),
                        !.nextId = @ + 1]
    /\ arg' = [caseId |-> caseId]
    /\ ret' = Returned("saveSnapshot", db.nextId)
    /\ UNCHANGED <<pc, now, postVars>>

\* the last case of a tab is deleted like any other
deleteCase_LastToo(caseId) ==
    /\ arg' = [caseId |-> caseId]
    /\ IF DbGet(db.cases, caseId) = NoDoc
       THEN /\ ret' = Thrown("deleteCase", "Case not found")
            /\ UNCHANGED db
       ELSE /\ db' = [db EXCEPT !.caseSnapshots = SelectSeq(@, LAMBDA d : d.caseId # caseId),
                                !.cases = DbDelete(@, caseId)]
            /\ ret' = Returned("deleteCase", 0)
    /\ UNCHANGED <<pc, now, postVars>>

deleteCase(caseId) ==
    /\ arg' = [caseId |-> caseId]
    /\ IF DbGet(db.cases, caseId) = NoDoc
       THEN /\ ret' = Thrown("deleteCase", "Case not found")
            /\ UNCHANGED db
       ELSE IF Len(ByTab(db.cases, DbGet(db.cases, caseId).tabId)) <= 1
       THEN /\ ret' = Thrown("deleteCase", "Cannot delete the last case in a tab")
            /\ UNCHANGED db
       ELSE /\ db' = [db EXCEPT !.caseSnapshots = SelectSeq(@, LAMBDA d : d.caseId # caseId),
                                !.cases = DbDelete(@, caseId)]
            /\ ret' = Returned("deleteCase", 0)
    /\ UNCHANGED <<pc, now, postVars>>

InitCases ==
    /\ pc = "idle" /\ PostIdle
    /\ db = NoTables /\ now = 0
    /\ arg = <<>>
    /\ ret = Returned("none", 0)

NextCases ==
    \/ \E t \in TabIds, cs \in CompanySets : create(t, cs)
    \/ \E c \in DocIds : duplicate(c)
    \/ \E c \in DocIds : saveSnapshot(c)
    \/ \E c \in DocIds : deleteCase(c)

SpecCases == InitCases /\ [][NextCases]_vars

\* the case is unknown, or it is the only case of its tab
MustReject(caseId) ==
    \/ DbGet(db.cases, caseId) = NoDoc
    \/ Len(ByTab(db.cases, DbGet(db.cases, caseId).tabId)) <= 1

\* C27: a tab that has a case keeps at least one case through every create,
\* duplicate and deleteCase; a deleteCase of an unknown case or of the only
\* case of its tab throws and changes neither cases nor snapshots; any other
\* deleteCase removes exactly that case and exactly the snapshots of that case
C27_LastCaseKept ==
    [][ /\ \A t \in TabIds : Len(ByTab(db.cases, t)) > 0 => Len(ByTab(db'.cases, t)) > 0
        /\ ret'.by = "deleteCase" =>
             IF MustReject(arg'.caseId)
             THEN ret'.thrown /\ db' = db
             ELSE /\ ~ret'.thrown
                  /\ db'.cases = SelectSeq(db.cases, LAMBDA d : d._id # arg'.caseId)
                  /\ Len(db'.cases) = Len(db.cases) - 1
                  /\ db'.caseSnapshots =
                        SelectSeq(db.caseSnapshots, LAMBDA d : d.caseId # arg'.caseId)
      ]_vars

\* case 2 was deleted with its snapshot 3; case 1 and its snapshot 4 remain
C27_Witness ==
    /\ ret.by = "deleteCase" /\ ~ret.thrown
    /\ arg.caseId = 2
    /\ db.nextId = 5
    /\ Len(db.cases) = 1 /\ db.cases[1]._id = 1
    /\ Len(db.caseSnapshots) = 1
    /\ db.caseSnapshots[1] = [_id |-> 4, caseId |-> 1]

----------------------------------------------------------------------------
(* historicalData: save, get, getMultiple, deleteExpired                   *)

CACHE_DURATION_MS == 86400000     \* 24 * 60 * 60 * 1000

MaxDays == 2        \* days the clock runs for

\* .withIndex("by_company_period", ...).first(), or NoDoc
FirstByCompanyPeriod(table, companyCode, period, interval) ==
    LET found == SelectSeq(table, LAMBDA d : /\ d.companyCode = companyCode
                                             /\ d.period = period
                                             /\ d.interval = interval)
    IN IF Len(found) > 0 THEN found[1] ELSE NoDoc

\* the patch of an existing record is left out: every save inserts
save_AlwaysInsert(args) ==
    /\ db.nextId <= MaxDocs
    /\ arg' = args
    /\ db' = [db EXCEPT !.historicalData =
                Append(@, [ _id |-> db.nextId,
                            companyCode |-> args.companyCode,
                            yahooSymbol |-> args.yahooSymbol,
                            period |-> args.period,
                            interval |-> args.interval,
                            data |-> args.data,
                            currentMetrics |-> args.currentMetrics,
                            fetchedAt |-> now,
                            expiresAt |-> now + CACHE_DURATION_MS ]),
                        !.nextId = @ + 1]
    /\ ret' = Returned("save", db.nextId)
    /\ UNCHANGED <<pc, now, postVars>>

save(args) ==
    /\ db.nextId <= MaxDocs
    /\ arg' = args
    /\ IF FirstByCompanyPeriod(db.historicalData, args.companyCode, args.period,
                               args.interval) # NoDoc
       THEN /\ db' = [db EXCEPT !.historicalData =
                        [i \in 1..Len(@) |->
                            IF @[i]._id = FirstByCompanyPeriod(db.historicalData,
                                              args.companyCode, args.period, args.interval)._id
                            THEN [@[i] EXCEPT !.yahooSymbol = args.yahooSymbol,
                                              !.data = args.data,
                                              !.currentMetrics = args.currentMetrics,
                                              !.fetchedAt = now,
                                              !.expiresAt = now + CACHE_DURATION_MS]
                            ELSE @[i]]]
            /\ ret' = Returned("save", FirstByCompanyPeriod(db.historicalData,
                                          args.companyCode, args.period, args.interval)._id)
       ELSE /\ db' = [db EXCEPT !.historicalData =
                        Append(@, [ _id |-> db.nextId,
                                    companyCode |-> args.companyCode,
                                    yahooSymbol |-> args.yahooSymbol,
                                    period |-> args.period,
                                    interval |-> args.interval,
                                    data |-> args.data,
                                    currentMetrics |-> args.currentMetrics,
                                    fetchedAt |-> now,
                                    expiresAt |-> now + CACHE_DURATION_MS ]),
                                !.nextId = @ + 1]
            /\ ret' = Returned("save", db.nextId)
    /\ UNCHANGED <<pc, now, postVars>>

\* the record get returns for the key, NoDoc standing for null
getResult(companyCode, period, interval) ==
    LET data == FirstByCompanyPeriod(db.historicalData, companyCode, period, interval)
    IN IF data # NoDoc /\ data.expiresAt < now THEN NoDoc ELSE data

get(companyCode, period, interval) ==
    /\ arg' = [companyCode |-> companyCode, period |-> period, interval |-> interval]
    /\ ret' = Returned("get", getResult(companyCode, period, interval))
    /\ UNCHANGED <<pc, db, now, postVars>>

\* the codes getMultiple has an entry for
ValidCodes(companyCodes, period, interval) ==
    { code \in companyCodes :
        LET data == FirstByCompanyPeriod(db.historicalData, code, period, interval)
        IN data # NoDoc /\ data.expiresAt >= now }

getMultiple(companyCodes, period, interval) ==
    /\ arg' = [companyCodes |-> companyCodes, period |-> period, interval |-> interval]
    /\ ret' = Returned("getMultiple",
                [code \in ValidCodes(companyCodes, period, interval) |->
                    FirstByCompanyPeriod(db.historicalData, code, period, interval)])
    /\ UNCHANGED <<pc, db, now, postVars>>

deleteExpired ==
    /\ arg' = <<>>
    /\ db' = [db EXCEPT !.historicalData = SelectSeq(@, LAMBDA d : ~(d.expiresAt < now))]
    /\ ret' = Returned("deleteExpired",
                Len(SelectSeq(db.historicalData, LAMBDA d : d.expiresAt < now)))
    /\ UNCHANGED <<pc, now, postVars>>

\* a day passes between two calls
ClockAdvances ==
    /\ now + CACHE_DURATION_MS <= MaxDays * CACHE_DURATION_MS
    /\ now' = now + CACHE_DURATION_MS
    /\ UNCHANGED <<pc, arg, ret, db, postVars>>

CompanyCodes == {"7203", "6758"}
Intervals == {"1d", "1wk"}
HistoryTexts == {"[]", "[{}]"}

\* the keys in use: two intervals of one company, and a second company
CacheKeys ==
    { k \in [companyCode : CompanyCodes, period : {"1y"}, interval : Intervals] :
        k.companyCode = "6758" => k.interval = "1d" }

SaveArgs ==
    { a \in [ companyCode : CompanyCodes, yahooSymbol : {"T"}, period : {"1y"},
              interval : Intervals, data : HistoryTexts, currentMetrics : {"{}"} ] :
        [companyCode |-> a.companyCode, period |-> a.period, interval |-> a.interval]
            \in CacheKeys }

InitCache ==
    /\ pc = "idle" /\ PostIdle
    /\ db = NoTables /\ now = 0
    /\ arg = <<>>
    /\ ret = Returned("none", 0)

NextCache ==
    \/ \E args \in SaveArgs : save(args)
    \/ \E k \in CacheKeys : get(k.companyCode, k.period, k.interval)
    \/ \E codes \in SUBSET CompanyCodes, i \in Intervals : getMultiple(codes, "1y", i)
    \/ deleteExpired
    \/ ClockAdvances

SpecCache == InitCache /\ [][NextCache]_vars

\* the records of one (companyCode, period, interval)
RecordsOf(table, key) ==
    SelectSeq(table, LAMBDA d : /\ d.companyCode = key.companyCode
                                /\ d.period = key.period
                                /\ d.interval = key.interval)

\* C28: after every step the cache holds at most one record per
\* (companyCode, period, interval), each with expiresAt = fetchedAt + 24h;
\* right after a save the record of its key carries the saved data and the
\* time of the save; only save and deleteExpired change the records; and
\* get and getMultiple return no record whose expiresAt is before the
\* current time
C28_OneFreshRecordPerKey ==
    [][ /\ \A i, j \in 1..Len(db'.historicalData) :
              ( /\ db'.historicalData[i].companyCode = db'.historicalData[j].companyCode
                /\ db'.historicalData[i].period = db'.historicalData[j].period
                /\ db'.historicalData[i].interval = db'.historicalData[j].interval ) => i = j
        /\ \A i \in 1..Len(db'.historicalData) :
              db'.historicalData[i].expiresAt =
                  db'.historicalData[i].fetchedAt + 24 * 60 * 60 * 1000
        /\ now' = now =>
            /\ ret'.by = "save" =>
                 /\ Len(RecordsOf(db'.historicalData, arg')) = 1
                 /\ RecordsOf(db'.historicalData, arg')[1].data = arg'.data
                 /\ RecordsOf(db'.historicalData, arg')[1].fetchedAt = now
                 /\ RecordsOf(db'.historicalData, arg')[1]._id = ret'.value
            /\ ret'.by \notin {"save", "deleteExpired"} => db' = db
            /\ ret'.by = "get" => (ret'.value = NoDoc \/ ret'.value.expiresAt >= now)
            /\ ret'.by = "getMultiple" =>
                 \A code \in DOMAIN ret'.value : ret'.value[code].expiresAt >= now
      ]_vars

\* a second save of one key, a day after the first, has replaced its data;
\* a day later a read returns the record, and a read of a key saved only at
\* the start returns nothing
C28_Witness ==
    /\ ret.by = "getMultiple" /\ DOMAIN ret.value = {"7203"}
    /\ arg.companyCodes = {"7203", "6758"}
    /\ now = 2 * CACHE_DURATION_MS
    /\ Len(db.historicalData) = 2
    /\ db.historicalData[1].fetchedAt = CACHE_DURATION_MS
    /\ db.historicalData[2].fetchedAt = 0
    /\ db.nextId = 3

----------------------------------------------------------------------------
(* cases.ts: setActiveCase, updateCompanyInCase; addCompanyToTab           *)

\* .withIndex("by_tab_company", ...).first(), or NoDoc
FirstByTabCompany(table, tabId, companyCode) ==
    LET found == SelectSeq(table, LAMBDA d : d.tabId = tabId /\ d.companyCode = companyCode)
    IN IF Len(found) > 0 THEN found[1] ELSE NoDoc

\* array.includes(x)
ArrayIncludes(array, x) == \E i \in 1..Len(array) : array[i] = x

addCompanyToTab(tabId, companyCode) ==
    /\ arg' = [tabId |-> tabId, companyCode |-> companyCode]
    /\ IF FirstByTabCompany(db.tabCompanies, tabId, companyCode) # NoDoc
       THEN /\ ret' = Returned("addCompanyToTab",
                         FirstByTabCompany(db.tabCompanies, tabId, companyCode)._id)
            /\ UNCHANGED db
       ELSE /\ db.nextId <= MaxDocs
            /\ db' = [db EXCEPT !.tabCompanies =
                        Append(@, [_id |-> db.nextId, tabId |-> tabId,
                                   companyCode |-> companyCode, enabled |-> TRUE]),
                                !.nextId = @ + 1]
            /\ ret' = Returned("addCompanyToTab", db.nextId)
    /\ UNCHANGED <<pc, now, postVars>>

setActiveCase(caseId) ==
    /\ arg' = [caseId |-> caseId]
    /\ IF DbGet(db.cases, caseId) = NoDoc
       THEN /\ ret' = Thrown("setActiveCase", "Case not found")
            /\ UNCHANGED db
       ELSE /\ db' = [db EXCEPT !.tabCompanies =
                        [i \in 1..Len(@) |->
                            IF @[i].tabId = DbGet(db.cases, caseId).tabId
                            THEN [@[i] EXCEPT !.enabled =
                                    ArrayIncludes(DbGet(db.cases, caseId).companySet,
                                                  db.tabCompanies[i].companyCode)]
                            ELSE @[i]]]
            /\ ret' = Returned("setActiveCase", 0)
    /\ UNCHANGED <<pc, now, postVars>>

\* the company set after the switch is applied
newCompanySet(companySet, companyCode, shouldInclude) ==
    IF shouldInclude
    THEN IF ~ArrayIncludes(companySet, companyCode)
         THEN Append(companySet, companyCode)
         ELSE companySet
    ELSE SelectSeq(companySet, LAMBDA code : code # companyCode)

\* the company's row in the tab is left as it was
updateCompanyInCase_CaseOnly(caseId, companyCode, shouldInclude) ==
    /\ arg' = [caseId |-> caseId, companyCode |-> companyCode,
               shouldInclude |-> shouldInclude]
    /\ IF DbGet(db.cases, caseId) = NoDoc
       THEN /\ ret' = Thrown("updateCompanyInCase", "Case not found")
            /\ UNCHANGED db
       ELSE /\ db' = [db EXCEPT
                        !.cases = [i \in 1..Len(@) |->
                            IF @[i]._id = caseId
                            THEN [@[i] EXCEPT !.companySet =
                                    newCompanySet(@, companyCode, shouldInclude)]
                            ELSE @[i]]]
            /\ ret' = Returned("updateCompanyInCase", 0)
    /\ UNCHANGED <<pc, now, postVars>>

updateCompanyInCase(caseId, companyCode, shouldInclude) ==
    /\ arg' = [caseId |-> caseId, companyCode |-> companyCode,
               shouldInclude |-> shouldInclude]
    /\ IF DbGet(db.cases, caseId) = NoDoc
       THEN /\ ret' = Thrown("updateCompanyInCase", "Case not found")
            /\ UNCHANGED db
       ELSE /\ db' = [db EXCEPT
                        !.cases = [i \in 1..Len(@) |->
                            IF @[i]._id = caseId
                            THEN [@[i] EXCEPT !.companySet =
                                    newCompanySet(@, companyCode, shouldInclude)]
                            ELSE @[i]],
                        !.tabCompanies = [i \in 1..Len(@) |->
                            IF @[i]._id = FirstByTabCompany(db.tabCompanies,
                                              DbGet(db.cases, caseId).tabId, companyCode)._id
                            THEN [@[i] EXCEPT !.enabled = shouldInclude]
                            ELSE @[i]]]
            /\ ret' = Returned("updateCompanyInCase", 0)
    /\ UNCHANGED <<pc, now, postVars>>

MaxActiveCases == 1 \* cases created in one behaviour of SpecActive

\* the company sets a case is created with; one names a code twice
ActiveCompanySets == { <<>>, <<"7203">>, <<"7203", "7203">> }

\* the companies added: two to the tab of the cases, one to another tab
TabCompanyArgs ==
    { r \in [tabId : TabIds, companyCode : CompanyCodes] :
        r.tabId = "tabB" => r.companyCode = "7203" }

\* create, while fewer than MaxActiveCases cases exist
createWithin(tabId, companySet) ==
    Len(db.cases) < MaxActiveCases /\ create(tabId, companySet)

InitActive ==
    /\ pc = "idle" /\ PostIdle
    /\ db = NoTables /\ now = 0
    /\ arg = <<>>
    /\ ret = Returned("none", 0)

NextActive ==
    \/ \E cs \in ActiveCompanySets : createWithin("tabA", cs)
    \/ \E r \in TabCompanyArgs : addCompanyToTab(r.tabId, r.companyCode)
    \/ \E c \in DocIds : setActiveCase(c)
    \/ \E c \in DocIds, code \in CompanyCodes, include \in BOOLEAN :
          updateCompanyInCase(c, code, include)

SpecActive == InitActive /\ [][NextActive]_vars

\* every company of the case's tab is enabled exactly when the case's
\* company set names it
EnabledAsInCase(d, caseId) ==
    \A i \in 1..Len(d.tabCompanies) :
        d.tabCompanies[i].tabId = DbGet(d.cases, caseId).tabId =>
            (d.tabCompanies[i].enabled <=>
                \E k \in 1..Len(DbGet(d.cases, caseId).companySet) :
                    DbGet(d.cases, caseId).companySet[k] = d.tabCompanies[i].companyCode)

NoDuplicates(array) ==
    \A i, j \in 1..Len(array) : array[i] = array[j] => i = j

\* C29: a setActiveCase(c) that returns leaves every company of c's tab
\* enabled exactly when c.companySet names it; an updateCompanyInCase(c, ...)
\* that starts with that equivalence ends with it, and one that starts with a
\* duplicate-free c.companySet ends with one
C29_EnabledFollowsCase ==
    [][ /\ (ret'.by = "setActiveCase" /\ ~ret'.thrown) => EnabledAsInCase(db', arg'.caseId)
        /\ (ret'.by = "updateCompanyInCase" /\ ~ret'.thrown) =>
              /\ EnabledAsInCase(db, arg'.caseId) => EnabledAsInCase(db', arg'.caseId)
              /\ NoDuplicates(DbGet(db.cases, arg'.caseId).companySet) =>
                    NoDuplicates(DbGet(db'.cases, arg'.caseId).companySet)
      ]_vars

\* case 1 of tabA, created empty, after two companies were added to the
\* tab, the case was activated and one company was switched on
C29_Witness ==
    /\ ret.by = "updateCompanyInCase" /\ ~ret.thrown
    /\ arg.caseId = 1 /\ arg.companyCode = "6758" /\ arg.shouldInclude
    /\ Len(db.cases) = 1 /\ db.cases[1].companySet = <<"6758">>
    /\ Len(db.tabCompanies) = 2
    /\ db.tabCompanies[1] = [_id |-> 2, tabId |-> "tabA", companyCode |-> "7203",
                             enabled |-> FALSE]
    /\ db.tabCompanies[2] = [_id |-> 3, tabId |-> "tabA", companyCode |-> "6758",
                             enabled |-> TRUE]

----------------------------------------------------------------------------
(* tabs.ts: createTab, reorderTabs, deleteTab                              *)

\* query("tabs").order("desc").take(1): the tab created last, if any
LatestTabs(table) == IF Len(table) > 0 THEN <<table[Len(table)]>> ELSE <<>>

createTab ==
    /\ db.nextId <= MaxDocs
    /\ arg' = <<>>
    /\ db' = [db EXCEPT !.tabs =
                Append(@, [_id |-> db.nextId,
                           order |-> IF Len(LatestTabs(db.tabs)) > 0
                                     THEN LatestTabs(db.tabs)[1].order + 1
                                     ELSE -1 + 1]),
                        !.nextId = @ + 1]
    /\ ret' = Returned("createTab", db.nextId)
    /\ UNCHANGED <<pc, now, postVars>>

\* the position of id in tabIds that the loop patches last, or 0
LastPositionIn(tabIds, id) ==
    IF \E i \in 1..Len(tabIds) : tabIds[i] = id
    THEN CHOOSE i \in 1..Len(tabIds) :
            tabIds[i] = id /\ \A j \in (i + 1)..Len(tabIds) : tabIds[j] # id
    ELSE 0

\* tabIds names tabs that exist
reorderTabs(tabIds) ==
    /\ \A i \in 1..Len(tabIds) : DbGet(db.tabs, tabIds[i]) # NoDoc
    /\ arg' = [tabIds |-> tabIds]
    /\ db' = [db EXCEPT !.tabs =
                [k \in 1..Len(@) |->
                    IF LastPositionIn(tabIds, db.tabs[k]._id) > 0
                    THEN [db.tabs[k] EXCEPT !.order = LastPositionIn(tabIds, db.tabs[k]._id) - 1]
                    ELSE db.tabs[k]]]
    /\ ret' = Returned("reorderTabs", 0)
    /\ UNCHANGED <<pc, now, postVars>>

\* tabId names a tab that exists
deleteTab(tabId) ==
    /\ DbGet(db.tabs, tabId) # NoDoc
    /\ arg' = [tabId |-> tabId]
    /\ db' = [db EXCEPT !.tabCompanies = SelectSeq(@, LAMBDA d : d.tabId # tabId),
                        !.tabs = DbDelete(@, tabId)]
    /\ ret' = Returned("deleteTab", 0)
    /\ UNCHANGED <<pc, now, postVars>>

\* the lists that name every document of the table once
OrderingsOf(table) ==
    { p \in [1..Len(table) -> { table[i]._id : i \in 1..Len(table) }] :
        \A i, j \in 1..Len(table) : p[i] = p[j] => i = j }

InitTabs ==
    /\ pc = "idle" /\ PostIdle
    /\ db = NoTables /\ now = 0
    /\ arg = <<>>
    /\ ret = Returned("none", 0)

NextTabs ==
    \/ createTab
    \/ \E tabIds \in OrderingsOf(db.tabs) : reorderTabs(tabIds)
    \/ \E t \in DocIds : deleteTab(t)

SpecTabs == InitTabs /\ [][NextTabs]_vars

\* C30: the tab createTab has just made has an order greater than that of
\* every other tab, and no two tabs have the same order
C30_OrdersDistinct ==
    /\ ret.by = "createTab" =>
          \A i \in 1..Len(db.tabs) :
              db.tabs[i]._id # ret.value =>
                  db.tabs[i].order < DbGet(db.tabs, ret.value).order
    /\ \A i, j \in 1..Len(db.tabs) : db.tabs[i].order = db.tabs[j].order => i = j

============================================================================
